---- MODULE Spec2Model ----
(***************************************************************************)
(* Model of the CompSys toolkit's cache simulator (modules/cache.js) and   *)
(* virtual-memory resolver (modules/vm.js) together with the bit helpers   *)
(* of lib/bit.js and the Compute handler of main.js.                       *)
(*                                                                         *)
(* Representation of numbers.  A BigInt (addresses, tags, page numbers)    *)
(* and a JavaScript Number holding a non-negative integer (cacheSize,      *)
(* blockSize, pageSize, ...) are both modelled by the set of the positions *)
(* of their 1 bits: 0x1004 is {2, 12}, 0 is {}.  The bitwise operators are  *)
(* then set operations at their real width, and values of 2^32 and above   *)
(* cost nothing.  Bit counts (addrBits, offsetBits, ...), way and set      *)
(* indices, counters and the logical clock stay plain integers.            *)
(***************************************************************************)
EXTENDS Integers, FiniteSets, Sequences, TLC

VARIABLES
    activeId,    \* main.js: id of the module shown on the page
    s,           \* ctx.state: the form state the module's compute reads
    pc,          \* "idle" | "loop" | "done" | "error": position of compute
    runs,        \* number of Compute clicks so far
    prevOutput,  \* what the previous Compute click wrote to the output pane
    output,      \* els.output.textContent, as a record
    offsetBits, indexBits, tagBits, numSets,   \* compute: derived split
    addrs,       \* cache: clampedAddrs, vm: addrs
    i,           \* loop index of the access loop
    time,        \* logical clock of the run
    sets, hits, misses, lines,                 \* cache.compute locals
    vpnBits, tlbIndexBits, tlbTagBits, enableTLB,
    pageTable, tlbSets, tlbHits, tlbMisses, ptHits, ptMisses, outLines,
    appState,    \* main.js appState[activeModule.id]: the module's stored state
    ctxState,    \* ctx.state of renderPage: the stored state read when the page was rendered
    formFields   \* the values the rendered form's inputs hold

vars == <<activeId, s, pc, runs, prevOutput, output,
          offsetBits, indexBits, tagBits, numSets, addrs, i, time,
          sets, hits, misses, lines,
          vpnBits, tlbIndexBits, tlbTagBits, enableTLB,
          pageTable, tlbSets, tlbHits, tlbMisses, ptHits, ptMisses, outLines,
          appState, ctxState, formFields>>

pageVars == <<appState, ctxState, formFields>>
cacheLocals == <<sets, hits, misses, lines, indexBits, tagBits, numSets>>
vmLocals == <<vpnBits, tlbIndexBits, tlbTagBits, enableTLB,
              pageTable, tlbSets, tlbHits, tlbMisses, ptHits, ptMisses, outLines>>

(***************************************************************************)
(* Bounds of the model.                                                    *)
(***************************************************************************)
MaxAddrs == 4      \* longest address list entered in the form
MaxRuns == 2       \* Compute clicks per behaviour
MaxRejectedAddrs == 2  \* longest address list entered with a rejected configuration
                       \* or holding the second malformed literal
MaxWays == 3       \* most lines of a set handed to pickVictimLRU on its own
MaxStamp == 2      \* largest lastUsed of such a line
MaxSeedRows == 3   \* most filled rows of the initial-TLB table
MaxMappings == 2   \* most mapping lines, and most rows of the initial page table
MaxBit == 33       \* highest bit of a number handed to isPowerOfTwo on its own
MaxOnes == 2       \* most 1 bits of such a number, unless it is 2^k - 1

(***************************************************************************)
(* Numbers as bit sets.                                                    *)
(***************************************************************************)
MaxOf(S) == CHOOSE m \in S : \A x \in S : x <= m
MinOf(S) == CHOOSE m \in S : \A x \in S : m <= x

\* The bit set of a small natural number written in the model.
N(n) == {k \in 0..30 : (n \div (2^k)) % 2 = 1}

\* Number(x) of a value small enough to index an array.
RECURSIVE ToNat(_)
ToNat(b) == IF b = {} THEN 0 ELSE LET k == MaxOf(b) IN 2^k + ToNat(b \ {k})

BigAnd(a, b) == a \cap b
BigOr(a, b) == a \cup b
BigShr(a, k) == {b - k : b \in {x \in a : x >= k}}
BigShl(a, k) == {b + k : b \in a}

\* a >= b on numbers
NumGeq(a, b) == a = b \/ MaxOf((a \ b) \cup (b \ a)) \in a

\* a - b for a >= b: a - b = (a xor b) - 2 * (~a & b)
RECURSIVE NumSub(_, _)
NumSub(a, b) == IF b = {} THEN a
                ELSE NumSub((a \ b) \cup (b \ a), BigShl(b \ a, 1))

\* n - 1 for n > 0
NumDec(n) == NumSub(n, {0})

\* Long division of n by d > 0, from bit k down: [q |-> n / d, r |-> n % d]
RECURSIVE LongDiv(_, _, _, _, _)
LongDiv(n, d, k, q, r) ==
    IF k < 0 THEN [q |-> q, r |-> r]
    ELSE LET r1 == BigShl(r, 1) \cup (IF k \in n THEN {0} ELSE {})
         IN IF NumGeq(r1, d)
            THEN LongDiv(n, d, k - 1, q \cup {k}, NumSub(r1, d))
            ELSE LongDiv(n, d, k - 1, q, r1)

NumMod(n, d) == IF n = {} THEN {} ELSE LongDiv(n, d, MaxOf(n), {}, {}).r
NumDiv(n, d) == IF n = {} THEN {} ELSE LongDiv(n, d, MaxOf(n), {}, {}).q

\* ToInt32 of the operand of a JavaScript bitwise operator: its low 32 bits
ToInt32(n) == n \cap (0..31)

(***************************************************************************)
(* lib/bit.js                                                              *)
(***************************************************************************)
\* An address token of the form: a hexadecimal literal with its value, or a
\* malformed literal.
\* (text is the line as typed; it is kept for malformed literals only)
Tok(v) == [hex |-> TRUE, v |-> v, text |-> ""]
BadTok == [hex |-> FALSE, v |-> {}, text |-> "0xZZ"]
BadTok2 == [hex |-> FALSE, v |-> {}, text |-> "12G4"]

\* mutant of parseHexThrows: a malformed literal is read as its value, no throw
parseHexNeverThrows(tok) == FALSE

\* parseHexToBigInt throws on a token that is no hexadecimal literal
parseHexThrows(tok) == ~tok.hex
parseHexToBigInt(tok) == tok.v

\* the message of the Error parseHexToBigInt throws: `Invalid hex address: "${input}"`
invalidHexMessage(tok) ==
    IF tok.text = "0xZZ" THEN "Invalid hex address: \"0xZZ\""
    ELSE "Invalid hex address: \"12G4\""

isPowerOfTwo(n) == n # {} /\ BigAnd(ToInt32(n), ToInt32(NumDec(n))) = {}

\* log2IntPow2 throws `Expected power of two` when isPowerOfTwo(n) is false
log2IntPow2Throws(n) == ~isPowerOfTwo(n)

\* Math.log2(n) | 0, called after isPowerOfTwo(n) has accepted n
log2IntPow2(n) == MaxOf(n)

maskBits(bits) == IF bits <= 0 THEN {} ELSE NumDec({bits})

\* mutant of clampBigIntToBits: the value is returned as it is
clampNothing(x, bits) == x

clampBigIntToBits(x, bits) == IF bits <= 0 THEN {} ELSE BigAnd(x, maskBits(bits))

(***************************************************************************)
(* The output pane.  A successful compute writes the access lines and the  *)
(* summary; a throw is caught by main.js and shown as "ERROR: " + message. *)
(***************************************************************************)
NoOutput == [kind |-> "none", msg |-> "", lines |-> <<>>, summary |-> <<>>]
ErrorOutput(m) == [kind |-> "error", msg |-> m, lines |-> <<>>, summary |-> <<>>]
TextOutput(ls, sm) == [kind |-> "text", msg |-> "", lines |-> ls, summary |-> <<sm>>]

\* main.js compute() runs on a click whenever no compute is running
ComputeClickable == pc \in {"idle", "done", "error"} /\ runs < MaxRuns

(***************************************************************************)
(* modules/cache.js                                                        *)
(***************************************************************************)
\* parseAddresses: the index of the first token parseHexToBigInt throws on, 0 if none
firstBadToken(toks) ==
    LET B == {k \in 1..Len(toks) : parseHexThrows(toks[k])}
    IN IF B = {} THEN 0 ELSE MinOf(B)

parseAddresses(toks) == [k \in 1..Len(toks) |-> parseHexToBigInt(toks[k])]

\* mutant of scanLRU: a later line with an equal lastUsed replaces the candidate
RECURSIVE scanLRULastTie(_, _, _)
scanLRULastTie(ls, k, best) ==
    IF k >= Cardinality(DOMAIN ls) THEN best
    ELSE scanLRULastTie(ls, k + 1, IF ls[k].lastUsed <= ls[best].lastUsed THEN k ELSE best)

\* the left-to-right scan of pickVictimLRU, from line k with candidate best
RECURSIVE scanLRU(_, _, _)
scanLRU(ls, k, best) ==
    IF k >= Cardinality(DOMAIN ls) THEN best
    ELSE scanLRU(ls, k + 1, IF ls[k].lastUsed < ls[best].lastUsed THEN k ELSE best)

\* mutant of pickVictimLRU: a full set always gives up way 0
pickVictimFirst(ls) ==
    LET invalid == {w \in DOMAIN ls : ~ls[w].valid}
    IN IF invalid # {} THEN MinOf(invalid) ELSE 0

pickVictimLRU(ls) ==
    LET invalid == {w \in DOMAIN ls : ~ls[w].valid}
    IN IF invalid # {} THEN MinOf(invalid) ELSE scanLRU(ls, 1, 0)

\* mutant of initCache: the store of the previous run is kept when there is one
initCacheKept(n, assoc) ==
    IF DOMAIN sets # {} THEN sets
    ELSE [st \in 0..(n - 1) |-> [w \in 0..(assoc - 1) |->
             [valid |-> FALSE, tag |-> {}, lastUsed |-> 0]]]

\* mutant of initCache: the lines are created valid
initCacheValid(n, assoc) ==
    [st \in 0..(n - 1) |-> [w \in 0..(assoc - 1) |->
        [valid |-> TRUE, tag |-> {}, lastUsed |-> 0]]]

initCache(n, assoc) ==
    [st \in 0..(n - 1) |-> [w \in 0..(assoc - 1) |->
        [valid |-> FALSE, tag |-> {}, lastUsed |-> 0]]]

\* mutant of findHitWay: any valid line counts as a hit, the tag is not compared
findHitWayAnyValid(setLines, tag) ==
    LET H == {w \in DOMAIN setLines : setLines[w].valid}
    IN IF H = {} THEN -1 ELSE MinOf(H)

\* mutant of findHitWay: the lookup loop stops after way 0
findHitWayFirstOnly(setLines, tag) ==
    IF setLines[0].valid /\ setLines[0].tag = tag THEN 0 ELSE -1

\* the way of the first valid line of the set holding the tag, -1 if none
findHitWay(setLines, tag) ==
    LET H == {w \in DOMAIN setLines : setLines[w].valid /\ setLines[w].tag = tag}
    IN IF H = {} THEN -1 ELSE MinOf(H)

\* cache.compute up to the access loop: the message of the first throw, "" if none
cacheConfigError(st) ==
    IF st.addrBits <= 0 \/ st.addrBits > 64 THEN "addrBits must be between 1 and 64."
    ELSE IF st.cacheSize = {} THEN "cacheSize must be > 0"
    ELSE IF st.blockSize = {} THEN "blockSize must be > 0"
    ELSE IF st.assoc = {} THEN "associativity must be > 0"
    ELSE IF ~isPowerOfTwo(st.blockSize) THEN "blockSize must be a power of two"
    ELSE IF NumMod(st.cacheSize, st.blockSize) # {}
         THEN "cacheSize must be divisible by blockSize"
    ELSE LET numBlocks == NumDiv(st.cacheSize, st.blockSize) IN
    IF NumMod(numBlocks, st.assoc) # {} THEN "blocks must be divisible by associativity"
    ELSE LET nSets == NumDiv(numBlocks, st.assoc) IN
    IF ~isPowerOfTwo(nSets) THEN "Number of sets is not a power of two."
    ELSE LET ob == log2IntPow2(st.blockSize)
             ib == IF nSets = {0} THEN 0 ELSE log2IntPow2(nSets)
         IN
    IF st.addrBits - ob - ib < 0 THEN "Invalid bit split: tagBits became negative."
    ELSE IF firstBadToken(st.addresses) # 0
         THEN invalidHexMessage(st.addresses[firstBadToken(st.addresses)])
    ELSE IF Len(st.addresses) = 0 THEN "Provide at least one address."
    ELSE ""

cacheNumSets(st) == NumDiv(NumDiv(st.cacheSize, st.blockSize), st.assoc)
cacheOffsetBits(st) == log2IntPow2(st.blockSize)
cacheIndexBits(st) == IF cacheNumSets(st) = {0} THEN 0 ELSE log2IntPow2(cacheNumSets(st))
cacheTagBits(st) == st.addrBits - cacheOffsetBits(st) - cacheIndexBits(st)

\* Compute click on the cache page: validation, parsing and the fresh store
CacheComputeStart ==
    /\ activeId = "cache"
    /\ ComputeClickable
    /\ runs' = runs + 1
    /\ prevOutput' = output
    /\ IF cacheConfigError(s) # ""
       THEN /\ pc' = "error"
            /\ output' = ErrorOutput(cacheConfigError(s))
            /\ UNCHANGED <<offsetBits, indexBits, tagBits, numSets, addrs, i, time,
                           sets, hits, misses, lines>>
       ELSE /\ pc' = "loop"
            /\ output' = output
            /\ offsetBits' = cacheOffsetBits(s)
            /\ indexBits' = cacheIndexBits(s)
            /\ tagBits' = cacheTagBits(s)
            /\ numSets' = ToNat(cacheNumSets(s))
            /\ addrs' = [k \in 1..Len(s.addresses) |->
                            clampBigIntToBits(parseAddresses(s.addresses)[k], s.addrBits)]
            /\ sets' = initCache(ToNat(cacheNumSets(s)), ToNat(s.assoc))
            /\ time' = 0 /\ hits' = 0 /\ misses' = 0
            /\ lines' = <<>>
            /\ i' = 0
    /\ UNCHANGED pageVars
    /\ UNCHANGED <<activeId, s>>
    /\ UNCHANGED vmLocals

\* mutant of cacheCount: a miss is counted as a miss and as a hit
cacheCountBoth(h, m, hit) == IF hit THEN <<h + 1, m>> ELSE <<h + 1, m + 1>>

\* hits++ on a hit, misses++ on a miss: <<hits, misses>> after the access
cacheCount(h, m, hit) == IF hit THEN <<h + 1, m>> ELSE <<h, m + 1>>

cacheOffset(a) == BigAnd(a, maskBits(offsetBits))

\* mutant of cacheIndex: the index taken from the low bits, offset not shifted out
cacheIndexNoShift(a) == IF indexBits = 0 THEN {} ELSE BigAnd(a, maskBits(indexBits))

cacheIndex(a) == IF indexBits = 0 THEN {}
                 ELSE BigAnd(BigShr(a, offsetBits), maskBits(indexBits))
\* mutant of cacheTag: the tag taken above the index bits only
cacheTagAboveIndex(a) == BigShr(a, indexBits)

cacheTag(a) == BigShr(a, offsetBits + indexBits)
\* mutant of cacheSetIdx: every index selects set 0, as if all sets shared
\* one array of lines
cacheSetIdxShared(index) == 0

\* Number(index): the set the access selects
cacheSetIdx(index) == ToNat(index)

\* mutant of cacheTouch: every line of the set is stamped
cacheTouchWholeSet(store, setIdx, way, now) ==
    [store EXCEPT ![setIdx] = [w \in DOMAIN store[setIdx] |->
                                  [store[setIdx][w] EXCEPT !.lastUsed = now]]]

\* setLines[hitWay].lastUsed = time
cacheTouch(store, setIdx, way, now) == [store EXCEPT ![setIdx][way].lastUsed = now]

\* one iteration of the access loop of cache.compute
CacheAccess ==
    /\ activeId = "cache"
    /\ pc = "loop"
    /\ i < Len(addrs)
    /\ LET a == addrs[i + 1]
           offset == cacheOffset(a)
           index == cacheIndex(a)
           tag == cacheTag(a)
           setIdx == cacheSetIdx(index)
           setLines == sets[setIdx]
           hitWay == findHitWay(setLines, tag)
           victim == pickVictimLRU(setLines)
           now == time + 1
       IN /\ time' = now
          /\ hits' = cacheCount(hits, misses, hitWay # -1)[1]
          /\ misses' = cacheCount(hits, misses, hitWay # -1)[2]
          /\ IF hitWay # -1
             THEN /\ sets' = cacheTouch(sets, setIdx, hitWay, now)
                  /\ lines' = Append(lines,
                        [addr |-> a, tag |-> tag, index |-> index, offset |-> offset,
                         result |-> "HIT", set |-> setIdx, way |-> hitWay,
                         evict |-> <<>>])
             ELSE /\ sets' = [sets EXCEPT ![setIdx][victim] =
                                 [valid |-> TRUE, tag |-> tag, lastUsed |-> now]]
                  /\ lines' = Append(lines,
                        [addr |-> a, tag |-> tag, index |-> index, offset |-> offset,
                         result |-> "MISS", set |-> setIdx, way |-> victim,
                         evict |-> IF setLines[victim].valid
                                   THEN <<setLines[victim].tag>> ELSE <<>>])
    /\ i' = i + 1
    /\ UNCHANGED pageVars
    /\ UNCHANGED <<activeId, s, pc, runs, prevOutput, output,
                   offsetBits, indexBits, tagBits, numSets, addrs>>
    /\ UNCHANGED vmLocals

\* the end of cache.compute: the summary, written to the output pane by main.js
\* hitRate.toFixed(2), in hundredths of a percent
cacheHitRate(h, m) ==
    IF h + m = 0 THEN 0 ELSE (h * 20000 + (h + m)) \div (2 * (h + m))

CacheFinish ==
    /\ activeId = "cache"
    /\ pc = "loop"
    /\ i = Len(addrs)
    /\ pc' = "done"
    /\ output' = TextOutput(lines, [hits |-> hits, misses |-> misses,
                                       hitRate |-> cacheHitRate(hits, misses)])
    /\ UNCHANGED pageVars
    /\ UNCHANGED <<activeId, s, runs, prevOutput,
                   offsetBits, indexBits, tagBits, numSets, addrs, i, time,
                   sets, hits, misses, lines>>
    /\ UNCHANGED vmLocals

(***************************************************************************)
(* modules/vm.js                                                           *)
(***************************************************************************)
\* An optional form cell: <<>> when blank, <<v>> when it holds v
Blank == <<>>
Cell(v) == <<v>>

\* mutant of mapSet: a key already in the Map keeps its entry
mapSetKeep(m, k, v) == [x \in (DOMAIN m) \cup {k} |-> IF x \in DOMAIN m THEN m[x] ELSE v]

\* Map.prototype.set on the page table
mapSet(m, k, v) == [x \in (DOMAIN m) \cup {k} |-> IF x = k THEN v ELSE m[x]]

\* parseMappings: the lines of the textarea, in order, each set into the Map
RECURSIVE parseMappingsFrom(_, _, _)
parseMappingsFrom(ls, k, m) ==
    IF k > Len(ls) THEN m
    ELSE parseMappingsFrom(ls, k + 1,
             mapSet(m, ls[k].vpn, [ppn |-> ls[k].ppn, flags |-> ls[k].flags]))

parseMappings(ls) == parseMappingsFrom(ls, 1, <<>>)

\* applyPtInitRows: rows with a blank VPN or PPN are skipped
RECURSIVE applyPtInitRowsFrom(_, _, _)
applyPtInitRowsFrom(m, rows, k) ==
    IF k > Len(rows) THEN m
    ELSE LET r == rows[k]
         IN IF r.vpn = Blank \/ r.ppn = Blank
            THEN applyPtInitRowsFrom(m, rows, k + 1)
            ELSE applyPtInitRowsFrom(
                     mapSet(m, r.vpn[1], [ppn |-> r.ppn[1], flags |-> r.flags]),
                     rows, k + 1)

applyPtInitRows(m, rows) == applyPtInitRowsFrom(m, rows, 1)

initTLB(n, assoc) ==
    [st \in 0..(n - 1) |-> [w \in 0..(assoc - 1) |->
        [valid |-> FALSE, tag |-> {}, ppn |-> {}, flags |-> "", lastUsed |-> 0]]]

\* the TLB lookup loop: the way of the first valid line holding the tag, -1 if none
vmFindHitWay(setLines, tag) ==
    LET H == {w \in DOMAIN setLines : setLines[w].valid /\ setLines[w].tag = tag}
    IN IF H = {} THEN -1 ELSE MinOf(H)

RECURSIVE vmScanLRU(_, _, _)
vmScanLRU(ls, k, best) ==
    IF k >= Cardinality(DOMAIN ls) THEN best
    ELSE vmScanLRU(ls, k + 1, IF ls[k].lastUsed < ls[best].lastUsed THEN k ELSE best)

vmPickVictimLRU(ls) ==
    LET invalid == {w \in DOMAIN ls : ~ls[w].valid}
    IN IF invalid # {} THEN MinOf(invalid) ELSE vmScanLRU(ls, 1, 0)

\* whether applyTlbInitRows skips the row (a blank cell, or set/way out of range)
tlbRowSkipped(tlb, r) ==
    \/ r.set = Blank \/ r.way = Blank \/ r.tag = Blank \/ r.ppn = Blank
    \/ r.set[1] < 0 \/ r.set[1] >= Cardinality(DOMAIN tlb)
    \/ r.way[1] < 0 \/ r.way[1] >= Cardinality(DOMAIN tlb[r.set[1]])

\* mutant of applyTlbInitRowsFrom: a skipped row uses up an automatic value
RECURSIVE applyTlbInitRowsFromCounting(_, _, _, _)
applyTlbInitRowsFromCounting(tlb, rows, k, t) ==
    IF k > Len(rows) THEN tlb
    ELSE LET r == rows[k]
         IN IF tlbRowSkipped(tlb, r)
            THEN applyTlbInitRowsFromCounting(tlb, rows, k + 1, t + 1)
            ELSE LET auto == r.lastUsed = Blank
                     lastUsed == IF auto THEN t + 1 ELSE r.lastUsed[1]
                 IN applyTlbInitRowsFromCounting(
                        [tlb EXCEPT ![r.set[1]][r.way[1]] =
                            [valid |-> TRUE, tag |-> r.tag[1], ppn |-> r.ppn[1],
                             flags |-> r.flags, lastUsed |-> lastUsed]],
                        rows, k + 1, IF auto THEN t + 1 ELSE t)

\* mutant of applyTlbInitRowsFrom: every automatic value is timeBase + 1
RECURSIVE applyTlbInitRowsFromFlat(_, _, _, _)
applyTlbInitRowsFromFlat(tlb, rows, k, t) ==
    IF k > Len(rows) THEN tlb
    ELSE LET r == rows[k]
         IN IF tlbRowSkipped(tlb, r)
            THEN applyTlbInitRowsFromFlat(tlb, rows, k + 1, t)
            ELSE LET auto == r.lastUsed = Blank
                     lastUsed == IF auto THEN t + 1 ELSE r.lastUsed[1]
                 IN applyTlbInitRowsFromFlat(
                        [tlb EXCEPT ![r.set[1]][r.way[1]] =
                            [valid |-> TRUE, tag |-> r.tag[1], ppn |-> r.ppn[1],
                             flags |-> r.flags, lastUsed |-> lastUsed]],
                        rows, k + 1, t)

\* applyTlbInitRows from row k on, t the automatic recency counter
RECURSIVE applyTlbInitRowsFrom(_, _, _, _)
applyTlbInitRowsFrom(tlb, rows, k, t) ==
    IF k > Len(rows) THEN tlb
    ELSE LET r == rows[k]
         IN IF tlbRowSkipped(tlb, r)
            THEN applyTlbInitRowsFrom(tlb, rows, k + 1, t)
            ELSE LET auto == r.lastUsed = Blank
                     lastUsed == IF auto THEN t + 1 ELSE r.lastUsed[1]
                 IN applyTlbInitRowsFrom(
                        [tlb EXCEPT ![r.set[1]][r.way[1]] =
                            [valid |-> TRUE, tag |-> r.tag[1], ppn |-> r.ppn[1],
                             flags |-> r.flags, lastUsed |-> lastUsed]],
                        rows, k + 1, IF auto THEN t + 1 ELSE t)

applyTlbInitRows(tlb, rows, timeBase) == applyTlbInitRowsFrom(tlb, rows, 1, timeBase)

vmOffsetBits(st) == log2IntPow2(st.pageSize)
vmVpnBits(st) == st.vaBits - vmOffsetBits(st)
vmTlbNumSets(st) == NumDiv(st.tlbEntries, st.tlbAssoc)
vmTlbIndexBits(st) == IF vmTlbNumSets(st) = {0} THEN 0 ELSE log2IntPow2(vmTlbNumSets(st))
vmTlbTagBits(st) == vmVpnBits(st) - vmTlbIndexBits(st)

\* vm.compute up to the access loop: the message of the first throw, "" if none
vmConfigError(st) ==
    IF st.vaBits <= 0 \/ st.vaBits > 64 THEN "vaBits must be between 1 and 64."
    ELSE IF st.paBits <= 0 \/ st.paBits > 64 THEN "paBits must be between 1 and 64."
    ELSE IF ~isPowerOfTwo(st.pageSize) THEN "pageSize must be a power of two."
    ELSE IF vmVpnBits(st) <= 0 THEN "Invalid split: vpnBits <= 0 (pageSize too large for VA)."
    ELSE IF Len(st.addresses) = 0 THEN "Provide at least one virtual address."
    ELSE IF firstBadToken(st.addresses) # 0
         THEN invalidHexMessage(st.addresses[firstBadToken(st.addresses)])
    ELSE IF ~st.enableTLB THEN ""
    ELSE IF st.tlbEntries = {} THEN "tlbEntries must be > 0"
    ELSE IF st.tlbAssoc = {} THEN "tlbAssoc must be > 0"
    ELSE IF NumMod(st.tlbEntries, st.tlbAssoc) # {}
         THEN "TLB entries must be divisible by associativity"
    ELSE IF ~isPowerOfTwo(vmTlbNumSets(st)) THEN "TLB number of sets must be a power of two"
    ELSE IF vmTlbTagBits(st) < 0 THEN "Invalid TLB split: tlbTagBits < 0"
    ELSE ""

\* Compute click on the vm page: validation, parsing, page table and TLB
VmComputeStart ==
    /\ activeId = "vm"
    /\ ComputeClickable
    /\ runs' = runs + 1
    /\ prevOutput' = output
    /\ IF vmConfigError(s) # ""
       THEN /\ pc' = "error"
            /\ output' = ErrorOutput(vmConfigError(s))
            /\ UNCHANGED <<offsetBits, addrs, i, time>>
            /\ UNCHANGED vmLocals
       ELSE /\ pc' = "loop"
            /\ output' = output
            /\ offsetBits' = vmOffsetBits(s)
            /\ vpnBits' = vmVpnBits(s)
            /\ enableTLB' = s.enableTLB
            /\ addrs' = [k \in 1..Len(s.addresses) |->
                            clampBigIntToBits(parseHexToBigInt(s.addresses[k]), s.vaBits)]
            /\ pageTable' = applyPtInitRows(parseMappings(s.mappings), s.ptInitRows)
            /\ IF s.enableTLB
               THEN /\ tlbIndexBits' = vmTlbIndexBits(s)
                    /\ tlbTagBits' = vmTlbTagBits(s)
                    /\ tlbSets' = applyTlbInitRows(
                           initTLB(ToNat(vmTlbNumSets(s)), ToNat(s.tlbAssoc)),
                           s.tlbInitRows, 0)
               ELSE /\ tlbIndexBits' = 0
                    /\ tlbTagBits' = 0
                    /\ tlbSets' = <<>>
            /\ time' = 0
            /\ tlbHits' = 0 /\ tlbMisses' = 0 /\ ptHits' = 0 /\ ptMisses' = 0
            /\ outLines' = <<>>
            /\ i' = 0
    /\ UNCHANGED pageVars
    /\ UNCHANGED <<activeId, s>>
    /\ UNCHANGED cacheLocals

\* mutant of vmCountTlb: a lookup is counted although the TLB is disabled
vmCountTlbWhenOff(h, m, on, hit) ==
    IF hit THEN <<h + 1, m>> ELSE <<h, m + 1>>

\* tlbHits++ / tlbMisses++ when the TLB is enabled: <<tlbHits, tlbMisses>> after
vmCountTlb(h, m, on, hit) ==
    IF ~on THEN <<h, m>> ELSE IF hit THEN <<h + 1, m>> ELSE <<h, m + 1>>

\* mutant of vmCountPt: the page table is consulted, and counted, on a TLB hit too
vmCountPtAlways(h, m, tlbHit, mapped) ==
    IF mapped THEN <<h + 1, m>> ELSE <<h, m + 1>>

\* mutant of vmCountPt: an absent VPN is counted as a page-table hit
vmCountPtFaultAsHit(h, m, tlbHit, mapped) ==
    IF tlbHit THEN <<h, m>> ELSE <<h + 1, m>>

\* ptHits++ / ptMisses++ when the TLB did not hit: <<ptHits, ptMisses>> after
vmCountPt(h, m, tlbHit, mapped) ==
    IF tlbHit THEN <<h, m>> ELSE IF mapped THEN <<h + 1, m>> ELSE <<h, m + 1>>

vmOffset(va) == BigAnd(va, maskBits(offsetBits))
vmVpn(va) == BigShr(va, offsetBits)
vmTlbIdx(vpn) == IF tlbIndexBits = 0 THEN {} ELSE BigAnd(vpn, maskBits(tlbIndexBits))
\* mutant of vmTlbTag: the whole VPN is kept as the tag
vmTlbTagUnshifted(vpn) == vpn

vmTlbTag(vpn) == BigShr(vpn, tlbIndexBits)
\* mutant of vmPhysical: the physical address is not clamped to paBits
vmPhysicalUnclamped(ppn, offset, paBits) == BigOr(BigShl(ppn, offsetBits), offset)

vmPhysical(ppn, offset, paBits) ==
    clampBigIntToBits(BigOr(BigShl(ppn, offsetBits), offset), paBits)

\* mutant of vmFillTlb: a victim line is filled on a page fault too
vmFillTlbOnFault(tlb, on, setIdx, tag, ppn, flags, now) ==
    IF ~on THEN tlb
    ELSE [tlb EXCEPT ![setIdx][vmPickVictimLRU(tlb[setIdx])] =
             [valid |-> TRUE, tag |-> tag, ppn |-> IF ppn = Blank THEN {} ELSE ppn[1],
              flags |-> flags, lastUsed |-> now]]

\* mutant of vmFillTlb: the fill goes to way 0 whatever the victim selection says
vmFillTlbWayZero(tlb, on, setIdx, tag, ppn, flags, now) ==
    IF ppn = Blank \/ ~on THEN tlb
    ELSE [tlb EXCEPT ![setIdx][0] =
             [valid |-> TRUE, tag |-> tag, ppn |-> ppn[1],
              flags |-> flags, lastUsed |-> now]]

\* "Fill TLB on miss": after a page-table hit with the TLB enabled the victim
\* line of the set takes tag, ppn and flags; a fault (ppn blank) fills nothing
vmFillTlb(tlb, on, setIdx, tag, ppn, flags, now) ==
    IF ppn = Blank \/ ~on THEN tlb
    ELSE [tlb EXCEPT ![setIdx][vmPickVictimLRU(tlb[setIdx])] =
             [valid |-> TRUE, tag |-> tag, ppn |-> ppn[1],
              flags |-> flags, lastUsed |-> now]]

\* one iteration of the access loop of vm.compute
VmAccess ==
    /\ activeId = "vm"
    /\ pc = "loop"
    /\ i < Len(addrs)
    /\ LET va == addrs[i + 1]
           now == time + 1
           offset == vmOffset(va)
           vpn == vmVpn(va)
           tlbSetIdx == IF enableTLB THEN ToNat(vmTlbIdx(vpn)) ELSE 0
           tlbTag == IF enableTLB THEN vmTlbTag(vpn) ELSE {}
           hitWay == IF enableTLB THEN vmFindHitWay(tlbSets[tlbSetIdx], tlbTag) ELSE -1
           tlbHit == enableTLB /\ hitWay # -1
           mapped == vpn \in DOMAIN pageTable
           ppn == IF tlbHit THEN Cell(tlbSets[tlbSetIdx][hitWay].ppn)
                  ELSE IF mapped THEN Cell(pageTable[vpn].ppn) ELSE Blank
           flags == IF tlbHit THEN tlbSets[tlbSetIdx][hitWay].flags
                    ELSE IF mapped THEN pageTable[vpn].flags ELSE ""
       IN /\ time' = now
          /\ tlbHits' = vmCountTlb(tlbHits, tlbMisses, enableTLB, tlbHit)[1]
          /\ tlbMisses' = vmCountTlb(tlbHits, tlbMisses, enableTLB, tlbHit)[2]
          /\ ptHits' = vmCountPt(ptHits, ptMisses, tlbHit, mapped)[1]
          /\ ptMisses' = vmCountPt(ptHits, ptMisses, tlbHit, mapped)[2]
          /\ tlbSets' = IF tlbHit
                        THEN [tlbSets EXCEPT ![tlbSetIdx][hitWay].lastUsed = now]
                        ELSE vmFillTlb(tlbSets, enableTLB, tlbSetIdx, tlbTag, ppn, flags, now)
          /\ outLines' = Append(outLines,
                [va |-> va, vpn |-> vpn, offset |-> offset,
                 tlbIdx |-> tlbSetIdx, tlbTag |-> tlbTag,
                 tlb |-> IF ~enableTLB THEN "off" ELSE IF tlbHit THEN "HIT" ELSE "MISS",
                 ppn |-> ppn, flags |-> flags,
                 pa |-> IF ppn = Blank THEN Blank
                        ELSE Cell(vmPhysical(ppn[1], offset, s.paBits))])
    /\ i' = i + 1
    /\ UNCHANGED pageVars
    /\ UNCHANGED <<activeId, s, pc, runs, prevOutput, output, offsetBits, addrs,
                   vpnBits, tlbIndexBits, tlbTagBits, enableTLB, pageTable>>
    /\ UNCHANGED cacheLocals

\* the end of vm.compute: the summary, written to the output pane by main.js
VmFinish ==
    /\ activeId = "vm"
    /\ pc = "loop"
    /\ i = Len(addrs)
    /\ pc' = "done"
    /\ output' = TextOutput(outLines,
                    [tlb |-> enableTLB, tlbHits |-> tlbHits, tlbMisses |-> tlbMisses,
                     ptHits |-> ptHits, ptMisses |-> ptMisses])
    /\ UNCHANGED pageVars
    /\ UNCHANGED <<activeId, s, runs, prevOutput, offsetBits, addrs, i, time>>
    /\ UNCHANGED vmLocals
    /\ UNCHANGED cacheLocals

(***************************************************************************)
(* The forms a behaviour starts from.                                      *)
(***************************************************************************)
\* address lines typed into the cache form: 0x00000000, 0x00000004,
\* 0x00000010, 0x00000035 and two lines that are no hexadecimal literals
CacheTokens == {Tok(N(0)), Tok(N(4)), Tok(N(16)), Tok(N(53)), BadTok, BadTok2}

\* address lines typed into the vm form: 0x00001004, 0x00005000, 0x00002008
\* and two lines that are no hexadecimal literals
VmTokens == {Tok(N(4100)), Tok(N(20480)), Tok(N(8200)), BadTok, BadTok2}

AddrLists(T) == UNION {[1..n -> T] : n \in 0..MaxAddrs}

CacheForm(ab, cs, bs, as) ==
    [addrBits |-> ab, cacheSize |-> cs, blockSize |-> bs, assoc |-> as,
     addresses |-> <<>>]

CacheForms ==
    { CacheForm(32, N(1024), N(16), N(1)),   \* the form's defaults: 64 sets, direct-mapped
      CacheForm(5, N(8), N(2), N(1)),        \* 4 sets, direct-mapped, 0x35 wider than addrBits
      CacheForm(6, N(8), N(2), N(2)),        \* 2 sets, 2-way
      CacheForm(4, N(4), N(2), N(2)),        \* 1 set, 2-way, addresses wider than addrBits
      CacheForm(6, N(6), N(2), N(3)),        \* 1 set, 3-way
      CacheForm(6, N(12), N(3), N(1)),       \* blockSize 3
      CacheForm(6, N(12), N(2), N(2)),       \* 3 sets
      CacheForm(2, N(8), N(2), N(1)),        \* tagBits -1
      CacheForm(3, N(8), N(2), N(1)),        \* tagBits 0
      CacheForm(6, N(8), N(2), N(3)),        \* 4 blocks, 3 ways
      CacheForm(6, N(9), N(2), N(1)),        \* cacheSize not divisible by blockSize
      CacheForm(0, N(8), N(2), N(1)),        \* addrBits 0
      CacheForm(65, N(8), N(2), N(1)),       \* addrBits 65
      CacheForm(64, {0, 32}, {0, 32}, N(1))  \* blockSize = cacheSize = 2^32 + 1
    }

Mapping(v, p, f) == [vpn |-> N(v), ppn |-> N(p), flags |-> f]
PtRow(v, p, f) == [vpn |-> v, ppn |-> p, flags |-> f]
TlbRow(st, w, tg, p, f, lu) ==
    [set |-> st, way |-> w, tag |-> tg, ppn |-> p, flags |-> f, lastUsed |-> lu]

VmForm(va, pa, ps, mp, on, te, ta, pt, tr) ==
    [vaBits |-> va, paBits |-> pa, pageSize |-> ps, addresses |-> <<>>,
     mappings |-> mp, enableTLB |-> on, tlbEntries |-> te, tlbAssoc |-> ta,
     ptInitRows |-> pt, tlbInitRows |-> tr]

VmForms ==
    { \* TLB off, page table {0x1 -> 0xA}
      VmForm(32, 32, N(4096), <<Mapping(1, 10, "RWX")>>, FALSE, N(16), N(4), <<>>, <<>>),
      \* direct-mapped TLB of 2 sets; VPN 0x2 unmapped
      VmForm(32, 32, N(4096), <<Mapping(1, 10, "RWX"), Mapping(5, 11, "R")>>,
             TRUE, N(2), N(1), <<>>, <<>>),
      \* 2-way TLB of 1 set; a repeated mapping line; all three pages mapped
      VmForm(32, 32, N(4096),
             <<Mapping(1, 15, ""), Mapping(1, 10, "RWX"), Mapping(5, 11, "R"),
               Mapping(2, 12, "RW")>>,
             TRUE, N(2), N(2), <<>>, <<>>),
      \* narrow addresses, seeded page table and TLB
      VmForm(14, 13, N(4096), <<Mapping(1, 10, "RWX")>>, TRUE, N(2), N(2),
             <<PtRow(Cell(N(2)), Cell(N(3)), "R"), PtRow(Blank, Cell(N(7)), "")>>,
             <<TlbRow(Cell(0), Cell(1), Cell(N(2)), Cell(N(7)), "R", Blank),
               TlbRow(Cell(1), Cell(0), Cell(N(1)), Cell(N(9)), "", Blank),
               TlbRow(Cell(0), Cell(0), Cell(N(3)), Cell(N(6)), "W", Cell(5))>>),
      \* vaBits 0, vaBits 65, paBits 0, paBits 65
      VmForm(0, 32, N(4096), <<Mapping(1, 10, "RWX")>>, FALSE, N(16), N(4), <<>>, <<>>),
      VmForm(65, 32, N(4096), <<Mapping(1, 10, "RWX")>>, FALSE, N(16), N(4), <<>>, <<>>),
      VmForm(32, 0, N(4096), <<Mapping(1, 10, "RWX")>>, FALSE, N(16), N(4), <<>>, <<>>),
      VmForm(32, 65, N(4096), <<Mapping(1, 10, "RWX")>>, FALSE, N(16), N(4), <<>>, <<>>),
      \* vpnBits 0 and vpnBits -1
      VmForm(12, 32, N(4096), <<Mapping(1, 10, "RWX")>>, FALSE, N(16), N(4), <<>>, <<>>),
      VmForm(11, 32, N(4096), <<Mapping(1, 10, "RWX")>>, FALSE, N(16), N(4), <<>>, <<>>),
      \* pageSize 3000
      VmForm(32, 32, N(3000), <<Mapping(1, 10, "RWX")>>, FALSE, N(16), N(4), <<>>, <<>>),
      \* 3 TLB sets
      VmForm(32, 32, N(4096), <<Mapping(1, 10, "RWX")>>, TRUE, N(3), N(1), <<>>, <<>>),
      \* pageSize = 2^32 + 1
      VmForm(64, 64, {0, 32}, <<Mapping(0, 10, "RWX")>>, FALSE, N(16), N(4), <<>>, <<>>)
    }

\* storage.js getModuleState: the state of a module nothing was stored for, {}
EmptyState == [fields |-> Blank, lastOutput |-> Blank, history |-> <<>>]

\* the stored state plays no part in a single compute
InitPage == appState = EmptyState /\ ctxState = EmptyState /\ formFields = Blank

(***************************************************************************)
(* The page after renderPage: the form holds its state, nothing computed.  *)
(***************************************************************************)
InitLocals ==
    /\ offsetBits = 0 /\ indexBits = 0 /\ tagBits = 0 /\ numSets = 0
    /\ addrs = <<>> /\ i = 0 /\ time = 0
    /\ sets = <<>> /\ hits = 0 /\ misses = 0 /\ lines = <<>>
    /\ vpnBits = 0 /\ tlbIndexBits = 0 /\ tlbTagBits = 0 /\ enableTLB = FALSE
    /\ pageTable = <<>> /\ tlbSets = <<>>
    /\ tlbHits = 0 /\ tlbMisses = 0 /\ ptHits = 0 /\ ptMisses = 0
    /\ outLines = <<>>

\* whether compute rejects the form's configuration whatever the address list
configRejected(id, f) ==
    LET st == [f EXCEPT !.addresses = <<Tok({})>>]
    IN IF id = "cache" THEN cacheConfigError(st) # "" ELSE vmConfigError(st) # ""

Init ==
    /\ activeId \in {"cache", "vm"}
    /\ \E f \in (IF activeId = "cache" THEN CacheForms ELSE VmForms),
          al \in AddrLists(IF activeId = "cache" THEN CacheTokens ELSE VmTokens) :
          /\ configRejected(activeId, f) => Len(al) <= MaxRejectedAddrs
          /\ (\E k \in 1..Len(al) : al[k] = BadTok2) => Len(al) <= MaxRejectedAddrs
          /\ s = [f EXCEPT !.addresses = al]
    /\ pc = "idle"
    /\ runs = 0
    /\ prevOutput = NoOutput
    /\ output = NoOutput
    /\ InitLocals
    /\ InitPage

Next ==
    \/ CacheComputeStart
    \/ CacheAccess
    \/ CacheFinish
    \/ VmComputeStart
    \/ VmAccess
    \/ VmFinish

Spec == Init /\ [][Next]_vars

(***************************************************************************)
(* Properties                                                              *)
(***************************************************************************)
CacheRunning == activeId = "cache" /\ pc \in {"loop", "done"}
VmRunning == activeId = "vm" /\ pc \in {"loop", "done"}

\* the form of the direct-mapped scenario: 32 / 1024 / 16 / 1 with the
\* addresses 0x00000000, 0x00000004, 0x00000010, 0x00000000
C1_Form == [CacheForm(32, N(1024), N(16), N(1)) EXCEPT
               !.addresses = <<Tok(N(0)), Tok(N(4)), Tok(N(16)), Tok(N(0))>>]

\* C1: with addrBits=32, cacheSize=1024, blockSize=16, associativity=1 the
\* run derives offsetBits=4, numSets=64, indexBits=6, tagBits=22, and the
\* addresses 0x0, 0x4, 0x10, 0x0 replayed from an empty cache give MISS, HIT,
\* MISS, HIT, none of them reporting an eviction; the finished run writes
\* exactly these four lines.
C1_DirectMappedScenario ==
    (activeId = "cache" /\ s = C1_Form /\ runs >= 1) =>
        /\ pc \in {"loop", "done"}
        /\ offsetBits = 4 /\ numSets = 64 /\ indexBits = 6 /\ tagBits = 22
        /\ Cardinality(DOMAIN sets) = 64
        /\ \A k \in 1..Len(lines) :
              /\ lines[k].result = <<"MISS", "HIT", "MISS", "HIT">>[k]
              /\ lines[k].evict = <<>>
        /\ (pc = "done" => /\ output.kind = "text"
                           /\ output.lines = lines
                           /\ Len(lines) = 4)

C1_Witness ==
    /\ activeId = "cache" /\ s = C1_Form /\ pc = "done"
    /\ Len(output.lines) = 4
    /\ output.lines[4].result = "HIT"

\* Reference model of LRU: the distinct tags accessed in set idx by the first
\* k access lines, most recently accessed first.
RECURSIVE RefRecency(_, _, _)
RefRecency(ls, k, idx) ==
    IF k = 0 THEN <<>>
    ELSE LET prev == RefRecency(ls, k - 1, idx)
         IN IF ls[k].index = idx
            THEN <<ls[k].tag>> \o SelectSeq(prev, LAMBDA x : x # ls[k].tag)
            ELSE prev

\* C2: the cache is true LRU.  Against the recency list of the reference
\* model, every access is a HIT exactly when its tag is among the
\* `associativity` most recently accessed distinct tags of its set, and a MISS
\* reports an evicted tag exactly when the set is full, the evicted tag being
\* the resident tag accessed longest ago.
C2_TrueLRU ==
    CacheRunning =>
        \A k \in 1..Len(lines) :
            LET rec == RefRecency(lines, k - 1, lines[k].index)
                assoc == ToNat(s.assoc)
                resident == {rec[j] : j \in 1..(IF Len(rec) < assoc THEN Len(rec) ELSE assoc)}
            IN /\ (lines[k].result = "HIT") <=> (lines[k].tag \in resident)
               /\ lines[k].result \in {"HIT", "MISS"}
               /\ lines[k].result = "HIT" => lines[k].evict = <<>>
               /\ lines[k].result = "MISS" =>
                     lines[k].evict = IF Len(rec) >= assoc THEN <<rec[assoc]>> ELSE <<>>

\* a 2-way set in which a hit re-ordered the lines before a miss evicted one:
\* the evicted tag is not the tag that was filled first
C2_Witness ==
    /\ CacheRunning
    /\ ToNat(s.assoc) = 2
    /\ \E k \in 1..Len(lines) :
          /\ lines[k].result = "MISS"
          /\ lines[k].evict # <<>>
          /\ \E j \in 1..(k - 1) :
                /\ lines[j].result = "HIT"
                /\ lines[j].index = lines[k].index
                /\ lines[k].evict = <<RefRecency(lines, k - 1, lines[k].index)[2]>>
                /\ lines[k].evict # <<lines[j].tag>>
                /\ lines[k].way = 1

C3_CountersSum ==
    /\ CacheRunning => hits >= 0 /\ misses >= 0 /\ hits + misses = i /\ i = Len(lines)
    /\ (VmRunning /\ enableTLB) =>
          tlbHits >= 0 /\ tlbMisses >= 0 /\ tlbHits + tlbMisses = i /\ i = Len(outLines)

C3_OneCounterPerAccess ==
    /\ CacheAccess =>
          \/ hits' = hits + 1 /\ misses' = misses
          \/ hits' = hits /\ misses' = misses + 1
    /\ (VmAccess /\ enableTLB) =>
          \/ tlbHits' = tlbHits + 1 /\ tlbMisses' = tlbMisses
          \/ tlbHits' = tlbHits /\ tlbMisses' = tlbMisses + 1

\* C3: after every processed access of a cache run hits >= 0, misses >= 0 and
\* hits + misses is the number of addresses processed so far, and each access
\* adds one to exactly one of the two counters; the same for tlbHits and
\* tlbMisses of a vm run with the TLB enabled.
C3_HitMissCounters == [](C3_CountersSum) /\ [][C3_OneCounterPerAccess]_vars

\* a cache run that has counted hits and misses
C3_Witness == CacheRunning /\ hits >= 1 /\ misses >= 2 /\ i = Len(addrs)

\* C4 as claimed: in every vm run, TLB enabled or not, ptHits + ptMisses
\* is the number of addresses processed so far.
C4_PageTableCountsEveryAccess ==
    VmRunning => ptHits + ptMisses = i

\* C4: in every vm run ptHits + ptMisses is the number of processed addresses
\* that did not hit the TLB: the number processed minus tlbHits, which is the
\* number processed when the TLB is disabled.
C4_PageTableCountsTlbMisses ==
    VmRunning =>
        /\ ptHits >= 0 /\ ptMisses >= 0
        /\ ptHits + ptMisses = i - tlbHits
        /\ ~enableTLB => (tlbHits = 0 /\ ptHits + ptMisses = i)

\* a finished TLB run with a TLB hit, a page-table hit and a page-table miss
C4_Witness ==
    /\ VmRunning /\ enableTLB /\ pc = "done"
    /\ tlbHits >= 1 /\ ptHits >= 1 /\ ptMisses >= 1

\* C5: determinism.  A second Compute click on the same form (same
\* configuration, same page-table and TLB seed rows, same address list), which
\* starts from a fresh store, writes the output the first click wrote: the
\* same access lines and the same statistics, or the same error; for the
\* cache and for the vm module.
C5_Deterministic ==
    (runs >= 2 /\ pc \in {"done", "error"}) => output = prevOutput

\* a second cache run that finished with hits, misses and an eviction
C5_Witness ==
    /\ activeId = "cache" /\ runs = 2 /\ pc = "done"
    /\ output.kind = "text" /\ prevOutput.kind = "text"
    /\ \E k \in 1..Len(output.lines) : output.lines[k].evict # <<>>
    /\ \E k \in 1..Len(output.lines) : output.lines[k].result = "HIT"

\* a second vm run with the TLB enabled that finished with a TLB hit and a fault
C5_WitnessVm ==
    /\ activeId = "vm" /\ runs = 2 /\ pc = "done" /\ enableTLB
    /\ \E k \in 1..Len(output.lines) : output.lines[k].tlb = "HIT"
    /\ \E k \in 1..Len(output.lines) : output.lines[k].pa = Blank

\* the low `bits` bits of x
LowBits(x, bits) == {b \in x : b < bits}

\* C6: decomposition round trip.  Every cache access line has
\* (tag << (indexBits + offsetBits)) | (index << offsetBits) | offset equal to
\* its address, which is the typed address clamped to addrBits; every vm
\* access line has (vpn << offsetBits) | offset equal to its virtual address,
\* the typed address clamped to vaBits, and, with the TLB enabled,
\* (tlbTag << tlbIndexBits) | tlbIndex equal to the VPN, tlbIndex being the low
\* tlbIndexBits bits of the VPN.
C6_RoundTrip ==
    /\ CacheRunning =>
          \A k \in 1..Len(lines) :
              /\ lines[k].addr = LowBits(s.addresses[k].v, s.addrBits)
              /\ BigOr(BigOr(BigShl(lines[k].tag, indexBits + offsetBits),
                             BigShl(lines[k].index, offsetBits)),
                       lines[k].offset) = lines[k].addr
    /\ VmRunning =>
          \A k \in 1..Len(outLines) :
              /\ outLines[k].va = LowBits(s.addresses[k].v, s.vaBits)
              /\ BigOr(BigShl(outLines[k].vpn, offsetBits), outLines[k].offset)
                    = outLines[k].va
              /\ enableTLB =>
                    /\ BigOr(BigShl(outLines[k].tlbTag, tlbIndexBits),
                             N(outLines[k].tlbIdx)) = outLines[k].vpn
                    /\ N(outLines[k].tlbIdx) = LowBits(outLines[k].vpn, tlbIndexBits)

\* a cache access whose typed address was clamped and whose tag, index and
\* offset are all non-zero
C6_Witness ==
    /\ CacheRunning
    /\ \E k \in 1..Len(lines) :
          /\ lines[k].addr # s.addresses[k].v
          /\ lines[k].tag # {} /\ lines[k].index # {} /\ lines[k].offset # {}

\* a vm run with the TLB enabled: an access whose VPN has tag and index bits
\* set, and one with a non-zero VPN and offset
C6_WitnessVm ==
    /\ VmRunning /\ enableTLB
    /\ \E k \in 1..Len(outLines) : outLines[k].tlbTag # {} /\ outLines[k].tlbIdx # 0
    /\ \E k \in 1..Len(outLines) : outLines[k].vpn # {} /\ outLines[k].offset # {}

\* n is 2^k for some k >= 0
IsExactPowerOfTwo(n) == Cardinality(n) = 1

\* C7: power-of-two enforcement.  Once Compute has been clicked, a blockSize,
\* a pageSize, a derived cache numSets or a derived TLB numSets that is not a
\* power of two has ended the run in an error: compute never goes on to the
\* access loop with a split computed from that value.
C7_PowerOfTwoEnforced ==
    /\ (activeId = "cache" /\ runs >= 1 /\
            (~IsExactPowerOfTwo(s.blockSize) \/ ~IsExactPowerOfTwo(cacheNumSets(s))))
          => pc = "error"
    /\ (activeId = "vm" /\ runs >= 1 /\
            (~IsExactPowerOfTwo(s.pageSize) \/
             (s.enableTLB /\ ~IsExactPowerOfTwo(vmTlbNumSets(s)))))
          => pc = "error"

\* C7 restricted to values below 2^32, where the 32-bit test of isPowerOfTwo
\* is exact
C7_EnforcedBelow32Bits ==
    /\ (activeId = "cache" /\ runs >= 1 /\ s.blockSize \subseteq 0..31 /\
            (~IsExactPowerOfTwo(s.blockSize) \/ ~IsExactPowerOfTwo(cacheNumSets(s))))
          => pc = "error"
    /\ (activeId = "vm" /\ runs >= 1 /\ s.pageSize \subseteq 0..31 /\
            (~IsExactPowerOfTwo(s.pageSize) \/
             (s.enableTLB /\ ~IsExactPowerOfTwo(vmTlbNumSets(s)))))
          => pc = "error"

\* an access leaves the lines of every set but the one its index selects
C8_OtherSetsUnchanged ==
    CacheAccess =>
        \A t \in DOMAIN sets :
            t # ToNat(lines'[Len(lines')].index) => sets'[t] = sets[t]

\* in a direct-mapped cache the block last accessed in each set is resident,
\* and an access hits when the last access to its set was to its block,
\* whatever was accessed in other sets in between
C8_RetainedAcrossSets ==
    (CacheRunning /\ ToNat(s.assoc) = 1) =>
        \A k \in 1..Len(lines) :
            /\ (\A m \in (k + 1)..Len(lines) : lines[m].index # lines[k].index) =>
                  /\ sets[ToNat(lines[k].index)][0].valid
                  /\ sets[ToNat(lines[k].index)][0].tag = lines[k].tag
            /\ \A j \in 1..(k - 1) :
                  ( /\ lines[j].index = lines[k].index
                    /\ lines[j].tag = lines[k].tag
                    /\ \A m \in (j + 1)..(k - 1) : lines[m].index # lines[k].index )
                  => lines[k].result = "HIT"

\* C8: no false eviction across sets.  An access whose index selects set s
\* leaves every line of every other set unchanged, so in an associativity-1
\* cache two addresses that map to different sets are both resident after both
\* were accessed and each later access to either of them is a HIT.
C8_NoFalseEviction == [](C8_RetainedAcrossSets) /\ [][C8_OtherSetsUnchanged]_vars

\* direct-mapped: A, then B in another set, then A again, which hits, with
\* both blocks resident
C8_Witness ==
    /\ CacheRunning /\ ToNat(s.assoc) = 1 /\ Len(lines) >= 3
    /\ LET k == Len(lines)
       IN /\ lines[k].result = "HIT"
          /\ lines[k - 1].index # lines[k].index
          /\ lines[k - 2].index = lines[k].index /\ lines[k - 2].tag = lines[k].tag
          /\ lines[k - 2].addr = lines[k].addr
          /\ sets[ToNat(lines[k].index)][0].tag = lines[k].tag
          /\ sets[ToNat(lines[k - 1].index)][0].tag = lines[k - 1].tag
          /\ sets[ToNat(lines[k - 1].index)][0].valid

\* C9: in an associativity-1 cache, when A is accessed and then B with the
\* same index and a different tag, the access to B is a MISS that evicts A's
\* block and reports A's tag as the evicted tag, and an access to A right
\* after it is a MISS again.
C9_ConflictEvicts ==
    (CacheRunning /\ ToNat(s.assoc) = 1) =>
        \A k \in 2..Len(lines) :
            (lines[k - 1].index = lines[k].index /\ lines[k - 1].tag # lines[k].tag) =>
                /\ lines[k].result = "MISS"
                /\ lines[k].evict = <<lines[k - 1].tag>>
                /\ (k = Len(lines) =>
                      /\ sets[ToNat(lines[k].index)][0].tag = lines[k].tag
                      /\ sets[ToNat(lines[k].index)][0].valid)
                /\ (k < Len(lines) /\ lines[k + 1].index = lines[k - 1].index
                                   /\ lines[k + 1].tag = lines[k - 1].tag)
                      => lines[k + 1].result = "MISS" /\ lines[k + 1].evict = <<lines[k].tag>>

\* direct-mapped: A, B, A with B in A's set under another tag
C9_Witness ==
    /\ CacheRunning /\ ToNat(s.assoc) = 1 /\ Len(lines) >= 3
    /\ LET k == Len(lines)
       IN /\ lines[k - 2].addr = lines[k].addr
          /\ lines[k - 1].index = lines[k].index
          /\ lines[k - 1].tag # lines[k].tag
          /\ lines[k - 1].evict = <<lines[k].tag>>
          /\ lines[k].result = "MISS"

\* the form of the page-table scenario: 32 / 32 / 4096, TLB disabled, page
\* table {0x1 -> 0xA}
C10_Form == VmForm(32, 32, N(4096), <<Mapping(1, 10, "RWX")>>, FALSE, N(16), N(4),
                   <<>>, <<>>)

\* C10: every resolved vm access reports the physical address
\* ((ppn << offsetBits) | offset) masked to paBits, offset being the low
\* offsetBits bits of the clamped virtual address: bit b of the physical
\* address is set exactly when b < paBits and either b is a bit of the offset
\* or b - offsetBits is a bit of the PPN.  With 32 / 32 / 4096, no TLB and
\* page table {0x1 -> 0xA}, address 0x00001004 gives vpn 0x1, offset 0x004, a
\* page-table hit and physical address 0x0000A004.
C10_PhysicalAddress ==
    VmRunning =>
        \A k \in 1..Len(outLines) :
            LET ln == outLines[k]
            IN /\ ln.offset = LowBits(ln.va, offsetBits)
               /\ ln.ppn # Blank =>
                     /\ ln.pa # Blank
                     /\ \A b \in 0..127 :
                           b \in ln.pa[1] <=>
                               /\ b < s.paBits
                               /\ \/ b \in ln.offset
                                  \/ b >= offsetBits /\ (b - offsetBits) \in ln.ppn[1]
               /\ ( /\ [s EXCEPT !.addresses = <<>>] = C10_Form
                    /\ s.addresses[k] = Tok(N(4100)) ) =>
                     /\ ln.vpn = N(1) /\ ln.offset = N(4)
                     /\ ln.tlb = "off"
                     /\ ln.ppn = Cell(N(10))
                     /\ ln.pa = Cell(N(40964))
                     /\ ptHits >= 1

\* the scenario run: 0x00001004 resolved to 0x0000A004 by a page-table hit
C10_Witness ==
    /\ VmRunning /\ [s EXCEPT !.addresses = <<>>] = C10_Form
    /\ s.addresses = <<Tok(N(4100))>>
    /\ pc = "done" /\ ptHits = 1 /\ ptMisses = 0
    /\ outLines[1].pa = Cell(N(40964))

\* a resolved access whose (ppn << offsetBits) | offset has bits at or above paBits
C10_WitnessClamped ==
    /\ VmRunning
    /\ \E k \in 1..Len(outLines) :
          /\ outLines[k].ppn # Blank
          /\ \E b \in outLines[k].ppn[1] : b + offsetBits >= s.paBits
          /\ outLines[k].pa[1] # {}

(***************************************************************************)
(* C11: an access whose VPN is absent from the page table and that does    *)
(* not hit the TLB is a Fault: its line carries no PPN and no physical     *)
(* address, it is counted as exactly one page-table miss (the page-table   *)
(* miss counter equals the number of Fault lines so far), the run does not *)
(* end in an error, and the finished run holds a line for every address.   *)
(***************************************************************************)
IsFaultLine(ln) == ln.tlb # "HIT" /\ ln.vpn \notin DOMAIN pageTable

C11_FaultOutcome ==
    (activeId = "vm" /\ outLines # <<>>) =>
        /\ pc \in {"loop", "done"}
        /\ \A k \in 1..Len(outLines) :
              IsFaultLine(outLines[k]) =>
                  outLines[k].ppn = Blank /\ outLines[k].pa = Blank
        /\ ptMisses = Cardinality({k \in 1..Len(outLines) : IsFaultLine(outLines[k])})
        /\ pc = "done" =>
              /\ output.kind = "text"
              /\ Len(output.lines) = Len(s.addresses)
              /\ output.summary[1].ptMisses = ptMisses

\* a finished run whose fault was followed by a resolved access
C11_Witness ==
    /\ activeId = "vm" /\ pc = "done"
    /\ \E k \in 1..Len(outLines) : \E j \in 1..Len(outLines) :
          /\ k < j
          /\ IsFaultLine(outLines[k])
          /\ outLines[k].va = N(20480)
          /\ outLines[j].pa # Blank
    /\ ptMisses >= 1

(***************************************************************************)
(* C12: no access changes the page table (while a run is in its loop or    *)
(* finished, the table is the one population built from the mapping list   *)
(* and the seed rows), and an access that ends in Fault changes no TLB     *)
(* line.                                                                   *)
(***************************************************************************)
C12_PageTableAsPopulated ==
    (activeId = "vm" /\ pc \in {"loop", "done"}) =>
        pageTable = applyPtInitRows(parseMappings(s.mappings), s.ptInitRows)

C12_AccessFrame ==
    (activeId = "vm" /\ pc = "loop" /\ i' = i + 1) =>
        /\ pageTable' = pageTable
        /\ outLines'[i'].ppn = Blank => tlbSets' = tlbSets

C12_NoStateChangeOnFault == [](C12_PageTableAsPopulated) /\ [][C12_AccessFrame]_vars

\* a fault with the TLB enabled and a valid line in the TLB, then a TLB hit
C12_Witness ==
    /\ activeId = "vm" /\ enableTLB /\ pc = "loop"
    /\ \E k \in 1..Len(outLines) : \E j \in 1..Len(outLines) :
          /\ k < j
          /\ outLines[k].tlb = "MISS" /\ outLines[k].ppn = Blank
          /\ outLines[j].tlb = "HIT"
    /\ \E st \in DOMAIN tlbSets : \E w \in DOMAIN tlbSets[st] : tlbSets[st][w].valid

(***************************************************************************)
(* C13: a run with an invalid configuration ends in an error and produces  *)
(* no access record and no statistics.  Invalid for the cache: addrBits    *)
(* outside [1,64], blockSize not a power of two, cacheSize not divisible   *)
(* by blockSize, block count not divisible by associativity, numSets not a *)
(* power of two, tagBits < 0.  Invalid for the memory resolver: vaBits or  *)
(* paBits outside [1,64], pageSize not a power of two, vpnBits <= 0.       *)
(***************************************************************************)
\* the exponent of an exact power of two
ExactLog2(n) == CHOOSE k \in n : TRUE

CacheConfigInvalid(st) ==
    \/ st.addrBits < 1 \/ st.addrBits > 64
    \/ ~IsExactPowerOfTwo(st.blockSize)
    \/ NumMod(st.cacheSize, st.blockSize) # {}
    \/ NumMod(NumDiv(st.cacheSize, st.blockSize), st.assoc) # {}
    \/ ~IsExactPowerOfTwo(NumDiv(NumDiv(st.cacheSize, st.blockSize), st.assoc))
    \/ st.addrBits - ExactLog2(st.blockSize)
           - ExactLog2(NumDiv(NumDiv(st.cacheSize, st.blockSize), st.assoc)) < 0

VmConfigInvalid(st) ==
    \/ st.vaBits < 1 \/ st.vaBits > 64
    \/ st.paBits < 1 \/ st.paBits > 64
    \/ ~IsExactPowerOfTwo(st.pageSize)
    \/ st.vaBits - ExactLog2(st.pageSize) <= 0

\* the run ended in an error: no access record, no statistics
RunRejected ==
    /\ pc = "error"
    /\ output.kind = "error" /\ output.lines = <<>> /\ output.summary = <<>>
    /\ lines = <<>> /\ outLines = <<>>

C13_InvalidConfigRejected ==
    /\ (activeId = "cache" /\ runs >= 1 /\ CacheConfigInvalid(s)) => RunRejected
    /\ (activeId = "vm" /\ runs >= 1 /\ VmConfigInvalid(s)) => RunRejected

\* C13 for sizes below 2^32, where the 32-bit test of isPowerOfTwo is exact:
\* an invalid configuration is rejected, and a valid one (tagBits = 0
\* included) is rejected by nothing but its address list
C13_RejectedBelow32Bits ==
    /\ (activeId = "cache" /\ runs >= 1 /\ s.blockSize \subseteq 0..31) =>
          /\ CacheConfigInvalid(s) => RunRejected
          /\ (~CacheConfigInvalid(s) /\ pc = "error") =>
                (s.addresses = <<>> \/ firstBadToken(s.addresses) # 0)
    /\ (activeId = "vm" /\ runs >= 1 /\ s.pageSize \subseteq 0..31
          /\ VmConfigInvalid(s)) => RunRejected

\* a rejected run for a negative tag width, an accepted one for tagBits = 0
C13_WitnessRejected ==
    /\ activeId = "cache" /\ RunRejected
    /\ s.addrBits = 2 /\ Len(s.addresses) = 2 /\ firstBadToken(s.addresses) = 0

C13_WitnessTagBitsZero ==
    /\ activeId = "cache" /\ pc = "done" /\ tagBits = 0 /\ Len(lines) = 2

C13_WitnessVm ==
    /\ activeId = "vm" /\ RunRejected /\ s.vaBits = 12
    /\ Len(s.addresses) = 2 /\ firstBadToken(s.addresses) = 0

(***************************************************************************)
(* C14: if any line of the address list is a malformed hexadecimal         *)
(* literal, whatever its position, the run ends in an error and produces   *)
(* no access record and no statistics, not even for the addresses before   *)
(* the malformed one; when the configuration passes validation the error   *)
(* message names the (first) malformed literal.                            *)
(***************************************************************************)
MalformedAt(st) == {k \in 1..Len(st.addresses) : ~st.addresses[k].hex}

\* the literal quoted in an "Invalid hex address" message, "" for other messages
LiteralNamed(msg) ==
    IF msg = "Invalid hex address: \"0xZZ\"" THEN "0xZZ"
    ELSE IF msg = "Invalid hex address: \"12G4\"" THEN "12G4"
    ELSE ""

C14_WitnessVm ==
    /\ activeId = "vm" /\ runs >= 1 /\ ~VmConfigInvalid(s)
    /\ MalformedAt(s) = {1, 2}
    /\ s.addresses[1].text = "12G4" /\ s.addresses[2].text = "0xZZ"
    /\ LiteralNamed(output.msg) = "12G4"

(***************************************************************************)
(* pickVictimLRU on its own: the page holds one set of lines in any state, *)
(* and the step calls the function of the active module on it, leaving the *)
(* returned way in i.                                                      *)
(***************************************************************************)
CacheLineStates ==
    [valid : BOOLEAN, tag : {{}}, lastUsed : 0..MaxStamp]
TlbLineStates ==
    [valid : BOOLEAN, tag : {{}}, ppn : {{}}, flags : {""}, lastUsed : 0..MaxStamp]
SetStates(L) == UNION {[0..(n - 1) -> L] : n \in 1..MaxWays}

VictimInit ==
    /\ activeId \in {"cache", "vm"}
    /\ s = <<>> /\ pc = "idle" /\ runs = 0
    /\ prevOutput = NoOutput /\ output = NoOutput
    /\ offsetBits = 0 /\ indexBits = 0 /\ tagBits = 0 /\ numSets = 1
    /\ addrs = <<>> /\ i = 0 /\ time = 0
    /\ hits = 0 /\ misses = 0 /\ lines = <<>>
    /\ vpnBits = 0 /\ tlbIndexBits = 0 /\ tlbTagBits = 0 /\ enableTLB = (activeId = "vm")
    /\ pageTable = <<>>
    /\ tlbHits = 0 /\ tlbMisses = 0 /\ ptHits = 0 /\ ptMisses = 0
    /\ outLines = <<>>
    /\ InitPage
    /\ IF activeId = "cache"
       THEN tlbSets = <<>> /\ \E ls \in SetStates(CacheLineStates) : sets = [st \in {0} |-> ls]
       ELSE sets = <<>> /\ \E ls \in SetStates(TlbLineStates) : tlbSets = [st \in {0} |-> ls]

CachePickVictim ==
    /\ activeId = "cache" /\ pc = "idle"
    /\ i' = pickVictimLRU(sets[0])
    /\ pc' = "done"
    /\ UNCHANGED pageVars
    /\ UNCHANGED <<activeId, s, runs, prevOutput, output, offsetBits, addrs, time>>
    /\ UNCHANGED cacheLocals
    /\ UNCHANGED vmLocals

VmPickVictim ==
    /\ activeId = "vm" /\ pc = "idle"
    /\ i' = vmPickVictimLRU(tlbSets[0])
    /\ pc' = "done"
    /\ UNCHANGED pageVars
    /\ UNCHANGED <<activeId, s, runs, prevOutput, output, offsetBits, addrs, time>>
    /\ UNCHANGED cacheLocals
    /\ UNCHANGED vmLocals

VictimNext ==
    \/ CachePickVictim
    \/ VmPickVictim

SpecVictim == VictimInit /\ [][VictimNext]_vars

(***************************************************************************)
(* C15: victim selection.  For every set state pickVictimLRU returns the   *)
(* lowest-indexed invalid line if the set has an invalid line; otherwise   *)
(* it returns a line of minimum lastUsed, and every line before it has a   *)
(* strictly larger lastUsed (ties go to the lowest line index).            *)
(***************************************************************************)
IsVictimOf(ls, v) ==
    /\ v \in DOMAIN ls
    /\ IF \E w \in DOMAIN ls : ~ls[w].valid
       THEN ~ls[v].valid /\ \A w \in DOMAIN ls : w < v => ls[w].valid
       ELSE /\ \A w \in DOMAIN ls : ls[v].lastUsed <= ls[w].lastUsed
            /\ \A w \in DOMAIN ls : w < v => ls[w].lastUsed > ls[v].lastUsed

C15_VictimSelection ==
    pc = "done" =>
        IsVictimOf(IF activeId = "cache" THEN sets[0] ELSE tlbSets[0], i)

\* a full set whose minimum lastUsed is shared by ways 1 and 2: way 1 is chosen
C15_Witness ==
    /\ pc = "done" /\ activeId = "cache"
    /\ DOMAIN sets[0] = 0..2
    /\ \A w \in 0..2 : sets[0][w].valid
    /\ sets[0][0].lastUsed = 2 /\ sets[0][1].lastUsed = 1 /\ sets[0][2].lastUsed = 1
    /\ i = 1

\* an invalid line behind a valid line of smaller lastUsed is chosen
C15_WitnessInvalid ==
    /\ pc = "done" /\ activeId = "vm"
    /\ DOMAIN tlbSets[0] = 0..2
    /\ tlbSets[0][0].valid /\ tlbSets[0][0].lastUsed = 0
    /\ ~tlbSets[0][1].valid /\ tlbSets[0][1].lastUsed = 2
    /\ ~tlbSets[0][2].valid
    /\ i = 1

(***************************************************************************)
(* C16: two-stage resolution with the TLB enabled.  Every access looks up  *)
(* the TLB first.  On a TLB hit it is resolved with the ppn/flags of the   *)
(* hit line and neither page-table counter changes.  Only on a TLB miss is *)
(* the page table looked up; when the VPN is found, exactly one TLB line   *)
(* changes: the victim line of set tlbIndex takes (tlbTag, ppn, flags) of  *)
(* the page-table entry.  Every access ends Resolved (a ppn and a physical *)
(* address) or Fault (neither).                                            *)
(***************************************************************************)
ChangedTlbLines ==
    {p \in UNION {{<<st, w>> : w \in DOMAIN tlbSets[st]} : st \in DOMAIN tlbSets} :
        tlbSets'[p[1]][p[2]] # tlbSets[p[1]][p[2]]}

C16_AccessStep ==
    (activeId = "vm" /\ pc = "loop" /\ enableTLB /\ i' = i + 1) =>
        LET ln == outLines'[i']
            before == tlbSets[ln.tlbIdx]
            holders == {w \in DOMAIN before : before[w].valid /\ before[w].tag = ln.tlbTag}
        IN /\ ln.tlbIdx = ToNat(LowBits(ln.vpn, tlbIndexBits))
           /\ (ln.ppn = Blank) <=> (ln.pa = Blank)
           /\ IF holders # {}
              THEN /\ ln.tlb = "HIT"
                   /\ \E w \in holders :
                         ln.ppn = Cell(before[w].ppn) /\ ln.flags = before[w].flags
                   /\ ptHits' = ptHits /\ ptMisses' = ptMisses
              ELSE /\ ln.tlb = "MISS"
                   /\ IF ln.vpn \in DOMAIN pageTable
                      THEN /\ ptHits' = ptHits + 1 /\ ptMisses' = ptMisses
                           /\ ln.ppn = Cell(pageTable[ln.vpn].ppn)
                           /\ ln.flags = pageTable[ln.vpn].flags
                           /\ \E v \in DOMAIN before :
                                 /\ IsVictimOf(before, v)
                                 /\ ChangedTlbLines = {<<ln.tlbIdx, v>>}
                                 /\ tlbSets'[ln.tlbIdx][v].valid
                                 /\ tlbSets'[ln.tlbIdx][v].tag = ln.tlbTag
                                 /\ tlbSets'[ln.tlbIdx][v].ppn = pageTable[ln.vpn].ppn
                                 /\ tlbSets'[ln.tlbIdx][v].flags = pageTable[ln.vpn].flags
                      ELSE /\ ptHits' = ptHits /\ ptMisses' = ptMisses + 1
                           /\ ln.ppn = Blank
                           /\ ChangedTlbLines = {}

C16_TwoStageResolution == [][C16_AccessStep]_vars

\* a hit on a seeded line whose ppn is not the page table's
C16_Witness ==
    /\ activeId = "vm" /\ enableTLB /\ pc = "done"
    /\ \E k \in 1..Len(outLines) :
          /\ outLines[k].tlb = "HIT"
          /\ outLines[k].vpn \in DOMAIN pageTable
          /\ outLines[k].ppn # Cell(pageTable[outLines[k].vpn].ppn)

\* misses filled way 0 and then way 1 of a 2-way set, and an access hit
C16_WitnessFill ==
    /\ activeId = "vm" /\ enableTLB /\ pc = "done"
    /\ \E k \in 1..Len(outLines) : outLines[k].tlb = "MISS" /\ outLines[k].ppn # Blank
    /\ \E k \in 1..Len(outLines) : outLines[k].tlb = "HIT"
    /\ \E st \in DOMAIN tlbSets :
          /\ Cardinality(DOMAIN tlbSets[st]) = 2
          /\ tlbSets[st][1].valid /\ tlbSets[st][1].lastUsed > tlbSets[st][0].lastUsed
          /\ tlbSets[st][0].valid /\ tlbSets[st][0].lastUsed > 0

(***************************************************************************)
(* The vm page with the initial-TLB table filled in: a 2-set, 2-way TLB    *)
(* and up to MaxSeedRows rows, each aimed at a line of the TLB or outside  *)
(* it, with lastUsed typed or left blank.  Compute runs as on any page.    *)
(***************************************************************************)
SeedTargets == {<<0, 0>>, <<0, 1>>, <<1, 0>>, <<2, 0>>, <<0, 2>>, <<-1, 0>>}

SeedRows ==
    {TlbRow(Cell(p[1]), Cell(p[2]), Cell(N(1)), Cell(N(10)), "RWX", Blank) :
        p \in SeedTargets}
    \cup {TlbRow(Cell(p[1]), Cell(p[2]), Cell(N(1)), Cell(N(10)), "RWX", Cell(5)) :
        p \in {<<0, 0>>, <<1, 0>>}}
    \cup {TlbRow(Cell(1), Cell(1), Blank, Cell(N(10)), "", Blank)}

\* mapping lines "1 -> F", "1 -> A RWX", "5 -> B R" and rows of the initial
\* page table, one of them with a blank VPN and one with a blank PPN
MappingLines == {Mapping(1, 15, ""), Mapping(1, 10, "RWX"), Mapping(5, 11, "R")}
PtSeedRows ==
    {PtRow(Cell(N(1)), Cell(N(12)), "RW"), PtRow(Cell(N(5)), Cell(N(13)), ""),
     PtRow(Blank, Cell(N(7)), "R"), PtRow(Cell(N(1)), Blank, "R")}

SeedForms ==
    {VmForm(32, 32, N(4096), <<Mapping(1, 10, "RWX")>>, TRUE, N(4), N(2), <<>>, rows) :
        rows \in UNION {[1..n -> SeedRows] : n \in 0..MaxSeedRows}}
    \cup
    {VmForm(32, 32, N(4096), mp, TRUE, N(4), N(2), pt, <<>>) :
        mp \in UNION {[1..n -> MappingLines] : n \in 0..MaxMappings},
        pt \in UNION {[1..n -> PtSeedRows] : n \in 0..MaxMappings}}

SeedInit ==
    /\ activeId = "vm"
    /\ \E f \in SeedForms :
          s = [f EXCEPT !.addresses = <<Tok(N(4100))>>]
    /\ pc = "idle"
    /\ runs = 0
    /\ prevOutput = NoOutput
    /\ output = NoOutput
    /\ InitLocals
    /\ InitPage

SeedNext ==
    \/ VmComputeStart
    \/ VmAccess
    \/ VmFinish

SpecSeed == SeedInit /\ [][SeedNext]_vars

\* the TLB as compute has just seeded it, before the first access
JustSeeded == activeId = "vm" /\ pc = "loop" /\ i = 0 /\ enableTLB

\* a row with all of set, way, tag, ppn filled in
RowFilled(r) == r.set # Blank /\ r.way # Blank /\ r.tag # Blank /\ r.ppn # Blank

\* a filled row aimed at a line of the TLB
RowInRange(r) ==
    /\ RowFilled(r)
    /\ r.set[1] \in DOMAIN tlbSets
    /\ r.way[1] \in DOMAIN tlbSets[r.set[1]]

\* a filled row aimed outside the TLB
RowOutOfRange(r) == RowFilled(r) /\ ~RowInRange(r)

\* the rows aimed at line <<st, w>>, by position in the table
RowsAt(st, w) ==
    {k \in 1..Len(s.tlbInitRows) :
        /\ RowInRange(s.tlbInitRows[k])
        /\ s.tlbInitRows[k].set[1] = st /\ s.tlbInitRows[k].way[1] = w}

\* the automatic recency value of row k: rows 1..k that are in range with a
\* blank lastUsed
AutoRank(k) ==
    Cardinality({j \in 1..k :
        RowInRange(s.tlbInitRows[j]) /\ s.tlbInitRows[j].lastUsed = Blank})

C18_SeedRecency ==
    JustSeeded =>
        /\ \A st \in DOMAIN tlbSets : \A w \in DOMAIN tlbSets[st] :
              RowsAt(st, w) # {} =>
                  LET k == MaxOf(RowsAt(st, w))
                      r == s.tlbInitRows[k]
                  IN /\ tlbSets[st][w].tag = r.tag[1]
                     /\ tlbSets[st][w].ppn = r.ppn[1]
                     /\ tlbSets[st][w].lastUsed =
                           IF r.lastUsed = Blank THEN AutoRank(k) ELSE r.lastUsed[1]
        /\ \A j \in 1..Len(s.tlbInitRows) : \A k \in 1..Len(s.tlbInitRows) :
              ( /\ j < k
                /\ RowInRange(s.tlbInitRows[j]) /\ s.tlbInitRows[j].lastUsed = Blank
                /\ RowInRange(s.tlbInitRows[k]) /\ s.tlbInitRows[k].lastUsed = Blank )
              => AutoRank(j) < AutoRank(k)

\* an explicit row between two automatic ones: 1, 5, 2
C18_Witness ==
    /\ JustSeeded
    /\ Len(s.tlbInitRows) = 3
    /\ \A k \in 1..3 : RowInRange(s.tlbInitRows[k])
    /\ s.tlbInitRows[1].lastUsed = Blank
    /\ s.tlbInitRows[2].lastUsed = Cell(5)
    /\ s.tlbInitRows[3].lastUsed = Blank
    /\ tlbSets[0][1].lastUsed = 1 /\ tlbSets[0][0].lastUsed = 5
    /\ tlbSets[1][0].lastUsed = 2

(***************************************************************************)
(* C19: page-table population keeps VPN keys unique with last-writer-wins. *)
(* The table holds exactly the VPNs of the mapping lines and of the seed   *)
(* rows with both VPN and PPN filled in; a VPN with such a seed row has    *)
(* the ppn/flags of the last of them, whatever the mapping list says; any  *)
(* other VPN has the ppn/flags of its last mapping line; seed rows with a  *)
(* blank VPN or PPN change nothing.                                        *)
(***************************************************************************)
PtRowsFor(v) ==
    {k \in 1..Len(s.ptInitRows) :
        /\ s.ptInitRows[k].vpn = Cell(v)
        /\ s.ptInitRows[k].ppn # Blank}
LinesFor(v) == {k \in 1..Len(s.mappings) : s.mappings[k].vpn = v}

C19_LastWriterWins ==
    (activeId = "vm" /\ pc \in {"loop", "done"}) =>
        /\ DOMAIN pageTable =
              {s.mappings[k].vpn : k \in 1..Len(s.mappings)}
              \cup {s.ptInitRows[k].vpn[1] :
                        k \in {j \in 1..Len(s.ptInitRows) :
                                  s.ptInitRows[j].vpn # Blank /\ s.ptInitRows[j].ppn # Blank}}
        /\ \A v \in DOMAIN pageTable :
              IF PtRowsFor(v) # {}
              THEN LET r == s.ptInitRows[MaxOf(PtRowsFor(v))]
                   IN pageTable[v] = [ppn |-> r.ppn[1], flags |-> r.flags]
              ELSE LET l == s.mappings[MaxOf(LinesFor(v))]
                   IN pageTable[v] = [ppn |-> l.ppn, flags |-> l.flags]

\* two mapping lines for VPN 1 and a seed row for VPN 1 after a blank-VPN row:
\* 0x1004 resolves through the seed row's PPN 0xC
C19_Witness ==
    /\ activeId = "vm" /\ pc = "done"
    /\ s.mappings = <<Mapping(1, 15, ""), Mapping(1, 10, "RWX")>>
    /\ s.ptInitRows = <<PtRow(Blank, Cell(N(7)), "R"), PtRow(Cell(N(1)), Cell(N(12)), "RW")>>
    /\ outLines[1].ppn = Cell(N(12))

\* two mapping lines for VPN 1 and a seed row for it with a blank PPN: the
\* second line's PPN 0xA
C19_WitnessLines ==
    /\ activeId = "vm" /\ pc = "done"
    /\ s.mappings = <<Mapping(1, 15, ""), Mapping(1, 10, "RWX")>>
    /\ s.ptInitRows = <<PtRow(Cell(N(1)), Blank, "R")>>
    /\ outLines[1].ppn = Cell(N(10))

(***************************************************************************)
(* C20: a cache run over an address sequence with no accesses completes    *)
(* normally and reports hits = 0, misses = 0 and hit rate 0.               *)
(***************************************************************************)
C20_EmptyRunCompletes ==
    (activeId = "cache" /\ runs >= 1 /\ s.addresses = <<>> /\ ~CacheConfigInvalid(s)
        /\ pc # "loop") =>
        /\ pc = "done"
        /\ output.kind = "text"
        /\ output.lines = <<>>
        /\ output.summary = <<[hits |-> 0, misses |-> 0, hitRate |-> 0]>>

\* what cache.compute does with an empty list: it throws before the loop
C20_EmptyListIsAnError ==
    (activeId = "cache" /\ runs >= 1 /\ s.addresses = <<>> /\ ~CacheConfigInvalid(s)) =>
        /\ RunRejected
        /\ output.msg = "Provide at least one address."

\* no finished cache run has an empty trace, so the zero-access hit rate is
\* never reported
C20_NoEmptyTrace ==
    (activeId = "cache" /\ pc = "done") =>
        /\ output.lines # <<>>
        /\ output.summary[1].hits + output.summary[1].misses > 0

(***************************************************************************)
(* C21: in every reachable state of a cache run, and of a memory run whose *)
(* TLB was not pre-seeded, no set contains two valid lines with the same   *)
(* tag.                                                                    *)
(***************************************************************************)
NoDuplicateTags(store) ==
    \A st \in DOMAIN store : \A v \in DOMAIN store[st] : \A w \in DOMAIN store[st] :
        (v # w /\ store[st][v].valid /\ store[st][w].valid)
            => store[st][v].tag # store[st][w].tag

C21_NoDuplicateTags ==
    /\ CacheRunning => NoDuplicateTags(sets)
    /\ (VmRunning /\ enableTLB /\ s.tlbInitRows = <<>>) => NoDuplicateTags(tlbSets)

\* a full 2-way cache set re-accessed, and a full 2-way TLB set re-accessed
C21_Witness ==
    /\ CacheRunning
    /\ \E st \in DOMAIN sets :
          /\ Cardinality(DOMAIN sets[st]) = 2
          /\ sets[st][0].valid /\ sets[st][1].valid
          /\ Cardinality({k \in 1..Len(lines) : lines[k].set = st}) >= 4

C21_WitnessVm ==
    /\ VmRunning /\ enableTLB /\ s.tlbInitRows = <<>>
    /\ \E st \in DOMAIN tlbSets :
          /\ Cardinality(DOMAIN tlbSets[st]) = 2
          /\ tlbSets[st][0].valid /\ tlbSets[st][1].valid
    /\ Len(outLines) >= 4

(***************************************************************************)
(* C22: pre-seeding preserves the store's caller invariant: after applying *)
(* any list of TLB seed rows and then any access sequence, no TLB set      *)
(* contains two valid lines with the same tag.                             *)
(***************************************************************************)
C22_SeedingKeepsTagsUnique ==
    (VmRunning /\ enableTLB) => NoDuplicateTags(tlbSets)

\* what the code guarantees instead: a set seeded without a repeated tag
\* never acquires one
C22_UniqueSeedsStayUnique ==
    (VmRunning /\ enableTLB
        /\ NoDuplicateTags(applyTlbInitRows(
               initTLB(ToNat(vmTlbNumSets(s)), ToNat(s.tlbAssoc)), s.tlbInitRows, 0)))
    => NoDuplicateTags(tlbSets)

(***************************************************************************)
(* C23: the logical clock is monotonic also over a pre-seeded TLB.  After  *)
(* any access that hits or fills a TLB line, that line's lastUsed is       *)
(* strictly greater than the lastUsed of every other valid line of its set *)
(* (seeded or not), so with associativity >= 2 the line just used is not   *)
(* the victim of the next miss in that set.                                *)
(***************************************************************************)
\* way w of the set is the line the last access used, and it is the most
\* recently used valid line of the set
JustUsedIsNewest(setLines, w, tag) ==
    /\ setLines[w].valid /\ setLines[w].tag = tag /\ setLines[w].lastUsed = time
    /\ \A v \in DOMAIN setLines :
          (v # w /\ setLines[v].valid) => setLines[v].lastUsed < setLines[w].lastUsed
    /\ Cardinality(DOMAIN setLines) >= 2 => vmPickVictimLRU(setLines) # w

LastAccessUsedTlb ==
    /\ VmRunning /\ enableTLB /\ i >= 1 /\ Len(outLines) = i
    /\ outLines[i].ppn # Blank

C23_ClockMonotonicOverSeeds ==
    LastAccessUsedTlb =>
        \E w \in DOMAIN tlbSets[outLines[i].tlbIdx] :
            JustUsedIsNewest(tlbSets[outLines[i].tlbIdx], w, outLines[i].tlbTag)

\* the same statement for runs whose initial-TLB table is empty
C23_MonotonicWhenUnseeded ==
    (LastAccessUsedTlb /\ s.tlbInitRows = <<>>) =>
        \E w \in DOMAIN tlbSets[outLines[i].tlbIdx] :
            JustUsedIsNewest(tlbSets[outLines[i].tlbIdx], w, outLines[i].tlbTag)

(***************************************************************************)
(* C24: TLB coherence.  In a memory run whose TLB was not pre-seeded, each *)
(* valid TLB line in set st with tag t holds exactly the ppn and flags of  *)
(* the page-table entry for VPN (t << tlbIndexBits) | st; a TLB hit        *)
(* reports the ppn and physical address a page-table lookup gives, and no  *)
(* access resolves a VPN that is absent from the page table.               *)
(***************************************************************************)
VpnOfLine(st, t) == BigOr(BigShl(t, tlbIndexBits), N(st))

C24_TlbCoherence ==
    (VmRunning /\ enableTLB /\ s.tlbInitRows = <<>>) =>
        /\ \A st \in DOMAIN tlbSets : \A w \in DOMAIN tlbSets[st] :
              tlbSets[st][w].valid =>
                  /\ VpnOfLine(st, tlbSets[st][w].tag) \in DOMAIN pageTable
                  /\ tlbSets[st][w].ppn = pageTable[VpnOfLine(st, tlbSets[st][w].tag)].ppn
                  /\ tlbSets[st][w].flags = pageTable[VpnOfLine(st, tlbSets[st][w].tag)].flags
        /\ \A k \in 1..Len(outLines) :
              outLines[k].ppn # Blank =>
                  /\ outLines[k].vpn \in DOMAIN pageTable
                  /\ outLines[k].ppn = Cell(pageTable[outLines[k].vpn].ppn)
                  /\ outLines[k].flags = pageTable[outLines[k].vpn].flags
                  /\ outLines[k].pa =
                        Cell(clampBigIntToBits(
                            BigOr(BigShl(pageTable[outLines[k].vpn].ppn, offsetBits),
                                  outLines[k].offset), s.paBits))

\* a 2-set TLB with a valid line in set 1, after a hit and a fault
C24_Witness ==
    /\ VmRunning /\ enableTLB /\ s.tlbInitRows = <<>>
    /\ Cardinality(DOMAIN tlbSets) = 2
    /\ tlbSets[1][0].valid
    /\ \E k \in 1..Len(outLines) : outLines[k].tlb = "HIT"
    /\ \E k \in 1..Len(outLines) : outLines[k].ppn = Blank

(***************************************************************************)
(* C25: every decomposed value is in range, for every accepted             *)
(* configuration and every input address: the clamped address is below     *)
(* 2^addrBits (2^vaBits), offset < 2^offsetBits, the cache set index is in *)
(* [0, numSets) and tag < 2^tagBits, vpn < 2^vpnBits, the TLB set index is *)
(* in [0, TLB numSets), and every reported physical address is < 2^paBits; *)
(* no access selects a set that does not exist.                            *)
(***************************************************************************)
\* x < 2^bits
Below(x, bits) == \A b \in x : b < bits

C25_ValuesInRange ==
    /\ CacheRunning =>
          /\ \A k \in 1..Len(addrs) : Below(addrs[k], s.addrBits)
          /\ \A k \in 1..Len(lines) :
                /\ Below(lines[k].addr, s.addrBits)
                /\ Below(lines[k].offset, offsetBits)
                /\ Below(lines[k].index, indexBits)
                /\ Below(lines[k].tag, tagBits)
                /\ lines[k].set \in DOMAIN sets
                /\ lines[k].set >= 0 /\ lines[k].set < Cardinality(DOMAIN sets)
                /\ lines[k].way \in DOMAIN sets[lines[k].set]
          /\ DOMAIN sets = 0..(ToNat(cacheNumSets(s)) - 1)
    /\ VmRunning =>
          /\ \A k \in 1..Len(addrs) : Below(addrs[k], s.vaBits)
          /\ \A k \in 1..Len(outLines) :
                /\ Below(outLines[k].va, s.vaBits)
                /\ Below(outLines[k].offset, offsetBits)
                /\ Below(outLines[k].vpn, vpnBits)
                /\ outLines[k].pa # Blank => Below(outLines[k].pa[1], s.paBits)
                /\ enableTLB =>
                      /\ outLines[k].tlbIdx \in DOMAIN tlbSets
                      /\ Below(outLines[k].tlbTag, tlbTagBits)
          /\ enableTLB => DOMAIN tlbSets = 0..(ToNat(vmTlbNumSets(s)) - 1)

\* an address wider than addrBits, clamped, with nonzero tag, index and offset;
\* and a physical address cut to paBits
C25_Witness ==
    /\ CacheRunning /\ pc = "done"
    /\ \E k \in 1..Len(lines) :
          /\ ~Below(s.addresses[k].v, s.addrBits)
          /\ lines[k].tag # {} /\ lines[k].index # {} /\ lines[k].offset # {}

C25_WitnessVm ==
    /\ VmRunning /\ pc = "done" /\ enableTLB
    /\ \E k \in 1..Len(outLines) :
          /\ ~Below(s.addresses[k].v, s.vaBits)
          /\ outLines[k].ppn # Blank
          /\ ~Below(BigShl(outLines[k].ppn[1], offsetBits), s.paBits)

(***************************************************************************)
(* C26: frame of one access on an associative store.  A HIT changes only   *)
(* the lastUsed of the hit line: valid, tag and payload of every line and  *)
(* lastUsed of every other line are unchanged.  A MISS that fills changes  *)
(* exactly one line, the victim, and leaves every other line of the store  *)
(* unchanged.                                                              *)
(***************************************************************************)
ChangedCacheLines ==
    {p \in UNION {{<<st, w>> : w \in DOMAIN sets[st]} : st \in DOMAIN sets} :
        sets'[p[1]][p[2]] # sets[p[1]][p[2]]}

C26_CacheStep ==
    (activeId = "cache" /\ pc = "loop" /\ i' = i + 1) =>
        LET ln == lines'[i']
        IN /\ DOMAIN sets' = DOMAIN sets
           /\ ln.result = "HIT" =>
                 /\ ChangedCacheLines = {<<ln.set, ln.way>>}
                 /\ sets'[ln.set][ln.way] =
                       [sets[ln.set][ln.way] EXCEPT !.lastUsed = time']
                 /\ sets[ln.set][ln.way].valid /\ sets[ln.set][ln.way].tag = ln.tag
           /\ ln.result = "MISS" =>
                 /\ ChangedCacheLines = {<<ln.set, ln.way>>}
                 /\ IsVictimOf(sets[ln.set], ln.way)
                 /\ sets'[ln.set][ln.way] =
                       [valid |-> TRUE, tag |-> ln.tag, lastUsed |-> time']

C26_TlbStep ==
    (activeId = "vm" /\ pc = "loop" /\ enableTLB /\ i' = i + 1) =>
        LET ln == outLines'[i']
        IN /\ DOMAIN tlbSets' = DOMAIN tlbSets
           /\ ln.tlb = "HIT" =>
                 \E w \in DOMAIN tlbSets[ln.tlbIdx] :
                     /\ ChangedTlbLines \subseteq {<<ln.tlbIdx, w>>}
                     /\ tlbSets[ln.tlbIdx][w].valid /\ tlbSets[ln.tlbIdx][w].tag = ln.tlbTag
                     /\ tlbSets'[ln.tlbIdx][w] =
                           [tlbSets[ln.tlbIdx][w] EXCEPT !.lastUsed = time']
           /\ (ln.tlb = "MISS" /\ ln.ppn # Blank) =>
                 \E w \in DOMAIN tlbSets[ln.tlbIdx] :
                     /\ ChangedTlbLines = {<<ln.tlbIdx, w>>}
                     /\ IsVictimOf(tlbSets[ln.tlbIdx], w)

C26_AccessFrame == [][C26_CacheStep /\ C26_TlbStep]_vars

\* a hit on a way other than 0, and a later miss in that set that evicted
C26_Witness ==
    /\ CacheRunning
    /\ \E k \in 1..Len(lines) : \E j \in 1..Len(lines) :
          /\ k < j
          /\ lines[k].result = "HIT" /\ lines[k].way >= 1
          /\ lines[j].result = "MISS" /\ lines[j].evict # <<>>
          /\ lines[j].set = lines[k].set

(***************************************************************************)
(* C27: a line that is valid never becomes invalid again during a run, and *)
(* a cache MISS reports an evicted tag exactly when every line of the      *)
(* selected set was valid before the access, the reported tag being the    *)
(* victim's previous tag; the number of valid lines of a cache set equals  *)
(* min(associativity, number of misses to that set so far).                *)
(***************************************************************************)
\* the misses to set st among the first k access lines
MissesTo(st, k) == {j \in 1..k : lines[j].set = st /\ lines[j].result = "MISS"}

\* the access lines before line k that used the same line of the store
UsesBefore(k) ==
    {j \in 1..(k - 1) : lines[j].set = lines[k].set /\ lines[j].way = lines[k].way}

\* the valid lines of TLB set st: those seeding made valid and one more for
\* every fill, up to the associativity
TlbValidCount(st) ==
    LET seeded == applyTlbInitRows(
                      initTLB(ToNat(vmTlbNumSets(s)), ToNat(s.tlbAssoc)), s.tlbInitRows, 0)
        n == Cardinality({w \in DOMAIN seeded[st] : seeded[st][w].valid})
             + Cardinality({k \in 1..Len(outLines) :
                   /\ outLines[k].tlbIdx = st
                   /\ outLines[k].tlb = "MISS" /\ outLines[k].ppn # Blank})
        assoc == Cardinality(DOMAIN tlbSets[st])
    IN IF n < assoc THEN n ELSE assoc

C27_ValidLinesStayValid ==
    /\ (VmRunning /\ enableTLB) =>
          \A st \in DOMAIN tlbSets :
              Cardinality({w \in DOMAIN tlbSets[st] : tlbSets[st][w].valid})
                  = TlbValidCount(st)
    /\ CacheRunning =>
        /\ \A st \in DOMAIN sets :
              LET n == Cardinality(MissesTo(st, Len(lines)))
                  assoc == Cardinality(DOMAIN sets[st])
              IN /\ Cardinality({w \in DOMAIN sets[st] : sets[st][w].valid})
                       = IF n < assoc THEN n ELSE assoc
        /\ \A k \in 1..Len(lines) :
              /\ sets[lines[k].set][lines[k].way].valid
              /\ lines[k].result = "MISS" =>
                    LET full == Cardinality(MissesTo(lines[k].set, k - 1))
                                    >= Cardinality(DOMAIN sets[lines[k].set])
                    IN /\ (lines[k].evict # <<>>) <=> full
                       /\ full => /\ UsesBefore(k) # {}
                                   /\ lines[k].evict = <<lines[MaxOf(UsesBefore(k))].tag>>

\* a 2-way set: two misses without eviction, then a miss that evicts
C27_Witness ==
    /\ CacheRunning /\ Len(lines) >= 3
    /\ Cardinality(DOMAIN sets[lines[1].set]) = 2
    /\ \A k \in 1..3 : lines[k].set = lines[1].set /\ lines[k].result = "MISS"
    /\ lines[1].evict = <<>> /\ lines[2].evict = <<>>
    /\ lines[3].evict = <<lines[1].tag>>

(***************************************************************************)
(* isPowerOfTwo and log2IntPow2 on their own: the page holds a positive    *)
(* integer n, and each step calls one of the two functions on it and shows *)
(* what it returned or that it threw.                                      *)
(***************************************************************************)
BitInputs ==
    {{f[k] : k \in 1..MaxOnes} : f \in [1..MaxOnes -> 0..MaxBit]}
    \cup {0..k : k \in 0..MaxBit}

BitInit ==
    /\ activeId = "bit"
    /\ \E n \in BitInputs : s = [n |-> n]
    /\ pc = "idle"
    /\ runs = 0
    /\ prevOutput = NoOutput
    /\ output = NoOutput
    /\ InitLocals
    /\ InitPage

CallIsPowerOfTwo ==
    /\ activeId = "bit" /\ pc = "idle"
    /\ pc' = "done"
    /\ output' = TextOutput(<<>>, [fn |-> "isPowerOfTwo", n |-> s.n,
                                    result |-> isPowerOfTwo(s.n), log2 |-> 0])
    /\ UNCHANGED pageVars
    /\ UNCHANGED <<activeId, s, runs, prevOutput, offsetBits, addrs, i, time>>
    /\ UNCHANGED cacheLocals
    /\ UNCHANGED vmLocals

CallLog2IntPow2 ==
    /\ activeId = "bit" /\ pc = "idle"
    /\ IF log2IntPow2Throws(s.n)
       THEN pc' = "error" /\ output' = ErrorOutput("Expected power of two")
       ELSE pc' = "done" /\
            output' = TextOutput(<<>>, [fn |-> "log2IntPow2", n |-> s.n,
                                        result |-> TRUE, log2 |-> log2IntPow2(s.n)])
    /\ UNCHANGED pageVars
    /\ UNCHANGED <<activeId, s, runs, prevOutput, offsetBits, addrs, i, time>>
    /\ UNCHANGED cacheLocals
    /\ UNCHANGED vmLocals

BitNext ==
    \/ CallIsPowerOfTwo
    \/ CallLog2IntPow2

SpecBit == BitInit /\ [][BitNext]_vars

(***************************************************************************)
(* C28: for every positive integer n, n >= 2^31 included, isPowerOfTwo(n)  *)
(* is true exactly when n is an exact power of two, and log2IntPow2(n)     *)
(* throws for every n that is not a power of two and returns k for         *)
(* n = 2^k.                                                                *)
(***************************************************************************)
C28_PowerOfTwoExact ==
    (activeId = "bit" /\ pc # "idle") =>
        /\ (pc = "done" /\ output.summary[1].fn = "isPowerOfTwo") =>
              output.summary[1].result = IsExactPowerOfTwo(s.n)
        /\ pc = "error" => ~IsExactPowerOfTwo(s.n)
        /\ (pc = "done" /\ output.summary[1].fn = "log2IntPow2") =>
              /\ IsExactPowerOfTwo(s.n)
              /\ s.n = {output.summary[1].log2}

\* C28 for n < 2^32, 2^31 included
C28_ExactBelow32Bits ==
    (activeId = "bit" /\ pc # "idle" /\ s.n \subseteq 0..31) =>
        /\ (pc = "done" /\ output.summary[1].fn = "isPowerOfTwo") =>
              output.summary[1].result = IsExactPowerOfTwo(s.n)
        /\ pc = "error" => ~IsExactPowerOfTwo(s.n)
        /\ (pc = "done" /\ output.summary[1].fn = "log2IntPow2") =>
              /\ IsExactPowerOfTwo(s.n)
              /\ s.n = {output.summary[1].log2}

\* 2^31 and 2^32 are recognised, 2^31 + 1 is refused
C28_Witness31 ==
    /\ activeId = "bit" /\ pc = "done" /\ s.n = {31}
    /\ output.summary[1].fn = "log2IntPow2" /\ output.summary[1].log2 = 31

(***************************************************************************)
(* C29: counter relations of a memory run, after every processed access.   *)
(* With the TLB enabled, ptHits + ptMisses = tlbMisses and                 *)
(* tlbHits + tlbMisses = number of processed addresses; with the TLB       *)
(* disabled, tlbHits = tlbMisses = 0 and ptHits + ptMisses = number of     *)
(* processed addresses; the number of accesses reported without a physical *)
(* address equals ptMisses.  The summary reports these counters.           *)
(***************************************************************************)
C29_CounterRelations ==
    VmRunning =>
        /\ i = Len(outLines)
        /\ IF enableTLB
           THEN /\ ptHits + ptMisses = tlbMisses
                /\ tlbHits + tlbMisses = i
           ELSE /\ tlbHits = 0 /\ tlbMisses = 0
                /\ ptHits + ptMisses = i
        /\ Cardinality({k \in 1..Len(outLines) : outLines[k].pa = Blank}) = ptMisses
        /\ tlbHits = Cardinality({k \in 1..Len(outLines) : outLines[k].tlb = "HIT"})
        /\ pc = "done" =>
              output.summary[1] = [tlb |-> enableTLB, tlbHits |-> tlbHits,
                                   tlbMisses |-> tlbMisses, ptHits |-> ptHits,
                                   ptMisses |-> ptMisses]

\* a finished run with the TLB on that hit, missed and faulted
C29_Witness ==
    /\ VmRunning /\ pc = "done" /\ enableTLB
    /\ tlbHits >= 1 /\ ptHits >= 1 /\ ptMisses >= 1 /\ i = 4

\* a finished run with the TLB off that resolved and faulted
C29_WitnessOff ==
    /\ VmRunning /\ pc = "done" /\ ~enableTLB
    /\ ptHits >= 1 /\ ptMisses >= 1

(***************************************************************************)
(* main.js: one rendered module page, its form and the stored state.       *)
(* Handlers run to completion, so an interleaving is a sequence of events. *)
(***************************************************************************)
MaxClicks == 3     \* Compute clicks on one rendered page

\* main.js compute: history keeps the newest 10 outputs, slice(0, 10)
HistoryKeep == 10

\* cache.render: the values the form shows for fields the state lacks
CacheRenderDefaults ==
    [CacheForm(32, N(1024), N(16), N(1)) EXCEPT
        !.addresses = <<Tok(N(0)), Tok(N(4)), Tok(N(16)), Tok(N(0))>>]

\* cache.compute: the values it reads for fields the state lacks
CacheComputeDefaults == CacheForm(32, N(1024), N(16), N(1))

\* vm.render: the values the form shows for fields the state lacks
VmRenderDefaults ==
    [VmForm(32, 32, N(4096),
            <<Mapping(1, 10, "RWX"), Mapping(2, 11, "R--"), Mapping(3, 10, "RW-")>>,
            TRUE, N(16), N(4),
            [k \in 1..12 |-> PtRow(Blank, Blank, "")],
            [k \in 1..12 |-> TlbRow(Blank, Blank, Blank, Blank, "", Blank)])
     EXCEPT !.addresses = <<Tok(N(4100)), Tok(N(4104)), Tok(N(8192)), Tok(N(4100))>>]

\* vm.compute: the values it reads for fields the state lacks
VmComputeDefaults == VmForm(32, 32, N(4096), <<>>, FALSE, N(16), N(4), <<>>, <<>>)

\* what the user can leave in the form of the page: the defaults, another
\* accepted form, a rejected configuration, a malformed or empty address list
PageForms(id) ==
    IF id = "cache"
    THEN { CacheRenderDefaults,
           [CacheForm(6, N(8), N(2), N(2)) EXCEPT !.addresses = <<Tok(N(0)), Tok(N(4))>>],
           [CacheForm(6, N(12), N(3), N(1)) EXCEPT !.addresses = <<Tok(N(0))>>],
           [CacheRenderDefaults EXCEPT !.addresses = <<BadTok>>] }
    ELSE { VmRenderDefaults,
           [VmForm(32, 32, N(4096), <<Mapping(1, 10, "RWX")>>, FALSE, N(16), N(4),
                   <<>>, <<>>) EXCEPT !.addresses = <<Tok(N(4100))>>],
           [VmRenderDefaults EXCEPT !.addresses = <<>>],
           [VmRenderDefaults EXCEPT !.vaBits = 65] }

\* render: const state = { field: s.field ?? default, ... }
renderedForm(id, st) ==
    IF st.fields # Blank THEN st.fields[1]
    ELSE IF id = "cache" THEN CacheRenderDefaults ELSE VmRenderDefaults

\* compute: the fields it reads from ctx.state, s.field ?? default
computeInput(id, st) ==
    IF st.fields # Blank THEN st.fields[1]
    ELSE IF id = "cache" THEN CacheComputeDefaults ELSE VmComputeDefaults

\* the message the module's compute throws on a state, "" if it returns
computeError(id, st) ==
    IF id = "cache" THEN cacheConfigError(computeInput(id, st))
    ELSE vmConfigError(computeInput(id, st))

\* the text the module's compute returns on a state: a function of the fields
\* it reads, named here by those fields (Spec follows the run line by line)
computeText(id, st) == TextOutput(<<>>, computeInput(id, st))

\* [out, ...(moduleState.history || [])].slice(0, 10)
pushHistory(out, history) ==
    LET all == <<out>> \o history
    IN SubSeq(all, 1, IF Len(all) < HistoryKeep THEN Len(all) ELSE HistoryKeep)

\* persist of cache.render / vm.render: { ...ctx.state, field: input.value, ... }
persist(rendered, f) == [rendered EXCEPT !.fields = Cell(f)]

\* what localStorage can hold for the module when the page is rendered
StoredStates(id) ==
    {EmptyState}
    \cup {[fields |-> Cell(f), lastOutput |-> Blank, history |-> <<>>] : f \in PageForms(id)}
    \cup {[fields |-> Cell(f),
           lastOutput |-> Cell(computeText(id, [fields |-> Cell(f)])),
           history |-> <<computeText(id, [fields |-> Cell(f)])>>] :
              f \in {g \in PageForms(id) : computeError(id, [fields |-> Cell(g)]) = ""}}

\* renderPage: ctx.state is the stored state, the form shows it, the output
\* pane shows lastOutput or "(intet endnu)"
PersistInit ==
    /\ activeId \in {"cache", "vm"}
    /\ appState \in StoredStates(activeId)
    /\ ctxState = appState
    /\ formFields = Cell(renderedForm(activeId, appState))
    /\ output = (IF appState.lastOutput = Blank THEN NoOutput ELSE appState.lastOutput[1])
    /\ s = <<>> /\ pc = "idle" /\ runs = 0 /\ prevOutput = NoOutput
    /\ InitLocals

\* an input or change event of the form: the edit, then persist
FormInput ==
    /\ activeId \in {"cache", "vm"}
    /\ \E f \in PageForms(activeId) :
          /\ formFields' = Cell(f)
          /\ appState' = persist(ctxState, f)
    /\ UNCHANGED <<ctxState, activeId, s, pc, runs, prevOutput, output,
                   offsetBits, addrs, i, time>>
    /\ UNCHANGED cacheLocals
    /\ UNCHANGED vmLocals

\* main.js compute, a Compute click: the module's compute on the stored
\* state, then lastOutput and history stored, or ERROR shown
ComputeClick ==
    /\ activeId \in {"cache", "vm"}
    /\ runs < MaxClicks
    /\ runs' = runs + 1
    /\ prevOutput' = output
    /\ IF computeError(activeId, appState) # ""
       THEN /\ output' = ErrorOutput(computeError(activeId, appState))
            /\ appState' = appState
       ELSE /\ output' = computeText(activeId, appState)
            /\ appState' = [appState EXCEPT
                   !.lastOutput = Cell(computeText(activeId, appState)),
                   !.history = pushHistory(computeText(activeId, appState),
                                           appState.history)]
    /\ UNCHANGED <<ctxState, formFields, activeId, s, pc, offsetBits, addrs, i, time>>
    /\ UNCHANGED cacheLocals
    /\ UNCHANGED vmLocals

\* resetModule: the stored state becomes {}, then renderPage
ResetClick ==
    /\ activeId \in {"cache", "vm"}
    /\ appState' = EmptyState
    /\ ctxState' = EmptyState
    /\ formFields' = Cell(renderedForm(activeId, EmptyState))
    /\ output' = NoOutput
    /\ UNCHANGED <<activeId, s, pc, runs, prevOutput, offsetBits, addrs, i, time>>
    /\ UNCHANGED cacheLocals
    /\ UNCHANGED vmLocals

PersistNext ==
    \/ FormInput
    \/ ComputeClick
    \/ ResetClick

SpecPersist == PersistInit /\ [][PersistNext]_vars

(***************************************************************************)
(* C30: for every interleaving of form-input events and Compute clicks on  *)
(* one rendered module page, the module's stored lastOutput and history    *)
(* change only through compute and reset: after a successful compute, a    *)
(* later form-input persist keeps the lastOutput and history that compute  *)
(* stored.                                                                 *)
(***************************************************************************)
C30_OutputChangesOnlyThroughCompute ==
    [][ (appState'.lastOutput # appState.lastOutput
            \/ appState'.history # appState.history)
        => (runs' = runs + 1 \/ (appState' = EmptyState /\ ctxState' = EmptyState))
      ]_vars

\* what the code does keep: a form-input persist stores the lastOutput and
\* history the page was rendered with
C30_PersistStoresRenderedOutput ==
    [][ (runs' = runs /\ appState' # appState /\ ctxState' = ctxState)
        => (appState'.lastOutput = ctxState.lastOutput
              /\ appState'.history = ctxState.history)
      ]_vars

====
